---- MODULE Spec2Model ----
(***************************************************************************)
(* Multi-tenant request authentication, tenant data routing, role guards   *)
(* and subscription lifecycle of the timesheet server (server/db.ts,       *)
(* server/auth.ts, server/storage.ts, server/routes.ts).                   *)
(*                                                                         *)
(* The server is one Node process: a request runs without interruption     *)
(* between two awaits, so every action below is one such run-to-await      *)
(* segment of a middleware or handler.                                     *)
(***************************************************************************)
EXTENDS Integers, Sequences, FiniteSets, TLC

VARIABLES
    tenants,            \* platform store, table tenants: id -> row or Null
    platformUsers,      \* platform store, table platform_users: id -> row or Null
    users,              \* tenant store at DATABASE_URL, table users: id -> row or Null
    tenantConnections,  \* db.ts: Map<connectionString, drizzle handle>
    pools,              \* every tenant Pool constructed so far, in order (its connection string)
    stripe,             \* billing provider: customers and subscriptions it holds
    cookies,            \* the client's cookie jar: platformToken, tenantToken
    reqs,               \* requests in flight: slot -> request context (req, res, locals)
    nReq,               \* requests started so far
    now                 \* the server's clock, in days

vars == <<tenants, platformUsers, users, tenantConnections, pools, stripe,
          cookies, reqs, nReq, now>>

\* undefined / null: an absent row, object or token; an absent string is NoStr
\* and an absent number is 0 (serial ids and handles start at 1)
Null == << >>
NoStr == "null"

\* ------------------------------------------------------------------ bounds
NumCallers == 3
MaxRequests == 3
MaxSubscriptionRequests == 2
MaxAuthRequests == 1
MaxClock == 8
MaxSubscriptionClock == 1

\* ------------------------------------------------------- connection strings
DATABASE_URL == "postgres://platform"
ConnStrings == {DATABASE_URL, "postgres://tenant-b"}

\* =========================================================================
\* db.ts: the tenant connection registry
\* =========================================================================

AlwaysMissing(conns, cs) == FALSE

\* tenantConnections.has(connectionString)
TenantConnectionsHas(conns, cs) == cs \in DOMAIN conns

EvictsOthers(conns, ps, cs) ==
    IF cs \in DOMAIN conns THEN conns ELSE [c \in {cs} |-> Len(ps) + 1]

\* getTenantDb: the registry after the call
GetTenantDbConns(conns, ps, cs) ==
    IF ~TenantConnectionsHas(conns, cs)
    THEN [c \in DOMAIN conns \cup {cs} |-> IF c = cs THEN Len(ps) + 1 ELSE conns[c]]
    ELSE conns

AlwaysBuilds(conns, ps, cs) == Append(ps, cs)

\* getTenantDb: the pools constructed after the call (new Pool on a miss)
GetTenantDbPools(conns, ps, cs) ==
    IF ~TenantConnectionsHas(conns, cs) THEN Append(ps, cs) ELSE ps

\* getTenantDb: the handle returned, tenantConnections.get(connectionString)!
GetTenantDbHandle(conns, ps, cs) == GetTenantDbConns(conns, ps, cs)[cs]

\* storage.ts createTenantStorage: a DatabaseTenantStorage over getTenantDb's handle
CreateTenantStorage(conns, ps, cs) == GetTenantDbHandle(conns, ps, cs)

\* =========================================================================
\* shared/schema: the rows of the platform store and of the tenant store
\* =========================================================================
TenantStatuses == {"active", "inactive", "suspended"}
PlatformRoles == {"super_admin", "product_owner"}
TenantRoles == {"admin", "manager", "user"}

\* role is a varchar column: a row may hold a string outside the documented set
OtherRole == "guest"

\* a row of table tenants
TenantRow(id, subdomain, cs, status) ==
    [id |-> id, subdomain |-> subdomain, dbConnectionString |-> cs, status |-> status,
     subscriptionPlan |-> "free", subscriptionStatus |-> "active",
     subscriptionEndsAt |-> 0, stripeCustomerId |-> NoStr, stripeSubscriptionId |-> NoStr]

\* a row of table platform_users
PlatformUserRow(id, email, password, role, isActive) ==
    [id |-> id, email |-> email, password |-> password, role |-> role, isActive |-> isActive]

\* a row of table users
UserRow(id, email, password, role, isActive, tenantId) ==
    [id |-> id, email |-> email, password |-> password, role |-> role,
     isActive |-> isActive, tenantId |-> tenantId]

\* A table is the sequence of the rows ever inserted, in serial-id order; a
\* deleted row leaves Null behind, as a serial id is never handed out twice.
Rows(table) == {table[i] : i \in {j \in 1..Len(table) : table[j] # Null}}

\* select ... where id = :id  (the first row or undefined)
SelectById(table, id) ==
    IF id \in 1..Len(table) THEN table[id] ELSE Null

\* select ... where email = :email  (email is unique)
SelectByEmail(table, email) ==
    IF \E u \in Rows(table) : u.email = email
    THEN CHOOSE u \in Rows(table) : u.email = email
    ELSE Null

\* storage.ts getTenantBySubdomain (subdomain is unique)
GetTenantBySubdomain(table, subdomain) ==
    IF \E t \in Rows(table) : t.subdomain = subdomain
    THEN CHOOSE t \in Rows(table) : t.subdomain = subdomain
    ELSE Null

\* update ... set <fields of data> where id = :id
UpdateById(table, id, data) ==
    IF id \in 1..Len(table) /\ table[id] # Null
    THEN [table EXCEPT ![id] =
            [f \in DOMAIN table[id] |-> IF f \in DOMAIN data THEN data[f] ELSE table[id][f]]]
    ELSE table

\* delete ... where id = :id
DeleteById(table, id) ==
    IF id \in 1..Len(table) THEN [table EXCEPT ![id] = Null] ELSE table

\* =========================================================================
\* auth.ts: credential codec
\* =========================================================================
JWT_SECRET == "your-super-secret-jwt-key-change-in-production"

\* bcrypt.hash(password, 12): the digest verifies for that password only
HashPassword(password) == <<"bcrypt", password>>

\* a comparison that accepts every password
AcceptsAnyPassword(password, hashedPassword) == TRUE

\* bcrypt.compare(password, hashedPassword)
ComparePasswords(password, hashedPassword) == hashedPassword = <<"bcrypt", password>>

\* expiresIn: '7d'
SevenDays == 7

\* a compact token is its three segments: header, claims, signature; any
\* other string has another number of segments and the empty string has one
EmptyString == <<"">>
MalformedToken == <<"not-a-jwt">>

\* HMAC of the claims under a secret
Sign(claims, secret) == <<secret, claims>>

SignsForOneDay(payload) ==
    LET claims == payload @@ [iat |-> now, exp |-> now + 1]
    IN <<"HS256", claims, Sign(claims, JWT_SECRET)>>

\* jwt.sign(payload, JWT_SECRET, {expiresIn: '7d'}): the claims are the payload
\* plus iat (the time of signing) and exp
GenerateToken(payload) ==
    LET claims == payload @@ [iat |-> now, exp |-> now + SevenDays]
    IN <<"HS256", claims, Sign(claims, JWT_SECRET)>>

\* a token that was not signed with the server's secret
ForgedToken ==
    LET claims == [userId |-> 1, tenantId |-> 1, role |-> "admin", type |-> "tenant",
                   iat |-> now, exp |-> now + SevenDays]
    IN <<"HS256", claims, Sign(claims, "attacker")>>

VerifiesWithoutExpiry(token) ==
    IF Len(token) # 3 THEN Null
    ELSE IF token[3] # Sign(token[2], JWT_SECRET) THEN Null
    ELSE token[2]

\* jwt.verify(token, JWT_SECRET): the claims, or Null when it throws
\* (jwt malformed, invalid signature, jwt expired)
VerifyToken(token) ==
    IF Len(token) # 3 THEN Null
    ELSE IF token[3] # Sign(token[2], JWT_SECRET) THEN Null
    ELSE IF now >= token[2].exp THEN Null
    ELSE token[2]

\* decoded.tenantId (undefined on a token without the claim)
ClaimTenantId(decoded) == IF "tenantId" \in DOMAIN decoded THEN decoded.tenantId ELSE 0

\* the Authorization header is <<prefix, rest>>, or Null when it is not sent
BearerHeader(token) == <<"Bearer ", token>>

ReadsCookieOnly(authorization, cookie) == cookie

FallsBackToCookie(authorization, cookie) ==
    IF authorization # Null /\ authorization[1] = "Bearer "
       /\ VerifiesWithoutExpiry(authorization[2]) # Null
    THEN authorization[2] ELSE cookie

\* authHeader && authHeader.startsWith('Bearer ') ? authHeader.substring(7) : req.cookies?.<domain>Token
ExtractToken(authorization, cookie) ==
    IF authorization # Null /\ authorization[1] = "Bearer " THEN authorization[2] ELSE cookie

\* !token
NoToken(token) == token = Null \/ token = EmptyString

\* =========================================================================
\* auth.ts: the checks of the two authentication middlewares and of login
\* =========================================================================
AcceptsSuspended(tenant) == tenant = Null \/ tenant.status = "inactive"

\* !tenant || tenant.status !== 'active'
TenantRejected(tenant) == tenant = Null \/ tenant.status # "active"

IgnoresIsActive(user) == user = Null

\* !user || !user.isActive
PrincipalRejected(user) == user = Null \/ ~user.isActive

IgnoresTenantId(user, tenant) == PrincipalRejected(user)

\* !user || !user.isActive || user.tenantId !== tenant.id
TenantPrincipalRejected(user, tenant) ==
    PrincipalRejected(user) \/ user.tenantId # tenant.id

\* tenant.dbConnectionString || process.env.DATABASE_URL!
ConnectionStringOf(tenant) ==
    IF tenant.dbConnectionString # NoStr THEN tenant.dbConnectionString ELSE DATABASE_URL

\* req.tenant as the middleware attaches it
ReqTenant(tenant) ==
    [id |-> tenant.id, subdomain |-> tenant.subdomain, connectionString |-> ConnectionStringOf(tenant)]

\* =========================================================================
\* auth.ts: role guards
\* =========================================================================
SuperAdminOrOwner == {"super_admin", "product_owner"}
requireSuperAdmin == {"super_admin"}
requirePlatformAdmin == {"super_admin", "product_owner"}
requireTenantAdmin == {"admin"}
ManagerOnly == {"manager"}
requireTenantManager == {"admin", "manager"}
requireTenantUser == {"admin", "manager", "user"}

\* requirePlatformRole(roles) / requireTenantRole(roles): TRUE when next() is called
RequireRole(roles, reqUser) == reqUser # Null /\ reqUser.role \in roles

AttachesTokenRole(user, decoded) == [user EXCEPT !.role = decoded.role]

\* req.user = user: the principal the middleware attaches is the row it loaded
AttachedUser(user, decoded) == user

\* =========================================================================
\* routes.ts: the route table.  <<route, authentication middleware, guarded?,
\* roles of its guard>> in registration order.
\* =========================================================================
RouteTable == {
    <<"POST /api/platform/auth/login", "none", FALSE, {}>>,
    <<"POST /api/platform/auth/register", "platform", TRUE, requireSuperAdmin>>,
    <<"GET /api/platform/auth/me", "platform", FALSE, {}>>,
    <<"POST /api/platform/auth/logout", "none", FALSE, {}>>,
    <<"GET /api/platform/dashboard", "platform", FALSE, {}>>,
    <<"POST /api/tenant/:subdomain/auth/login", "none", FALSE, {}>>,
    <<"GET /api/tenant/:subdomain/auth/me", "tenant", FALSE, {}>>,
    <<"POST /api/tenant/:subdomain/auth/logout", "none", FALSE, {}>>,
    <<"GET /api/platform/tenants", "platform", TRUE, requirePlatformAdmin>>,
    <<"POST /api/platform/tenants", "platform", TRUE, requirePlatformAdmin>>,
    <<"PUT /api/platform/tenants/:id", "platform", TRUE, requirePlatformAdmin>>,
    <<"DELETE /api/platform/tenants/:id", "platform", TRUE, requireSuperAdmin>>,
    <<"POST /api/tenant/:subdomain/users", "tenant", TRUE, requireTenantManager>>,
    <<"GET /api/tenant/:subdomain/users", "tenant", TRUE, requireTenantManager>>,
    <<"PUT /api/tenant/:subdomain/users/:id", "tenant", TRUE, requireTenantManager>>,
    <<"DELETE /api/tenant/:subdomain/users/:id", "tenant", TRUE, requireTenantManager>>,
    <<"GET /api/tenant/:subdomain/customers", "tenant", TRUE, requireTenantUser>>,
    <<"POST /api/tenant/:subdomain/customers", "tenant", TRUE, requireTenantUser>>,
    <<"PUT /api/tenant/:subdomain/customers/:id", "tenant", TRUE, requireTenantUser>>,
    <<"DELETE /api/tenant/:subdomain/customers/:id", "tenant", TRUE, requireTenantManager>>,
    <<"GET /api/tenant/:subdomain/projects", "tenant", TRUE, requireTenantUser>>,
    <<"POST /api/tenant/:subdomain/projects", "tenant", TRUE, requireTenantManager>>,
    <<"PUT /api/tenant/:subdomain/projects/:id", "tenant", TRUE, requireTenantManager>>,
    <<"DELETE /api/tenant/:subdomain/projects/:id", "tenant", TRUE, requireTenantManager>>,
    <<"GET /api/tenant/:subdomain/timesheets", "tenant", TRUE, requireTenantUser>>,
    <<"POST /api/tenant/:subdomain/timesheets", "tenant", TRUE, requireTenantUser>>,
    <<"PUT /api/tenant/:subdomain/timesheets/:id", "tenant", TRUE, requireTenantUser>>,
    <<"DELETE /api/tenant/:subdomain/timesheets/:id", "tenant", TRUE, requireTenantUser>>,
    <<"GET /api/tenant/:subdomain/tasks", "tenant", TRUE, requireTenantUser>>,
    <<"POST /api/tenant/:subdomain/tasks", "tenant", TRUE, requireTenantUser>>,
    <<"PUT /api/tenant/:subdomain/tasks/:id", "tenant", TRUE, requireTenantUser>>,
    <<"DELETE /api/tenant/:subdomain/tasks/:id", "tenant", TRUE, requireTenantUser>>,
    <<"GET /api/tenant/:subdomain/projects/assigned", "tenant", TRUE, requireTenantUser>>,
    <<"POST /api/tenant/:subdomain/projects/:projectId/assign", "tenant", TRUE, requireTenantManager>>,
    <<"GET /api/tenant/:subdomain/expenses", "tenant", TRUE, requireTenantUser>>,
    <<"POST /api/tenant/:subdomain/expenses", "tenant", TRUE, requireTenantUser>>,
    <<"PUT /api/tenant/:subdomain/expenses/:id", "tenant", TRUE, requireTenantUser>>,
    <<"DELETE /api/tenant/:subdomain/expenses/:id", "tenant", TRUE, requireTenantUser>>,
    <<"GET /api/tenant/:subdomain/subscription", "tenant", FALSE, {}>>,
    <<"POST /api/tenant/:subdomain/subscription/upgrade", "tenant", FALSE, {}>>,
    <<"POST /api/tenant/:subdomain/subscription/cancel", "tenant", FALSE, {}>> }

Routes == {e[1] : e \in RouteTable}
RouteEntry(route) == CHOOSE e \in RouteTable : e[1] = route
RouteAuth(route) == RouteEntry(route)[2]
RouteGuarded(route) == RouteEntry(route)[3]
RouteRoles(route) == RouteEntry(route)[4]

\* the guard of a route lets a principal with this stored role through
RouteAuthorizes(route, role) == ~RouteGuarded(route) \/ role \in RouteRoles(route)

\* =========================================================================
\* Requests.  A request context holds the inputs (route, :subdomain, :id, body,
\* Authorization header, the domain's cookie), what the middleware attached
\* (req.user, req.tenant), the locals that live across awaits (decoded, tenant,
\* customerId, the new subscription's id), the billing calls and subscription
\* writes the handler has awaited so far (calls), and the response (status 0 =
\* none sent yet).
\* =========================================================================
NewRequest(route, subdomain, id, body, authorization, cookie) ==
    [pc |-> "start", route |-> route, subdomain |-> subdomain, id |-> id, body |-> body,
     authorization |-> authorization, cookie |-> cookie,
     decoded |-> Null, locTenant |-> Null,
     user |-> Null, tenant |-> Null,
     customerId |-> NoStr, subscriptionId |-> NoStr, calls |-> << >>,
     status |-> 0, message |-> NoStr, resToken |-> Null, ran |-> FALSE]

\* res.status(status).json({message}) and return: the locals die with the call
Respond(q, status, message) ==
    [q EXCEPT !.pc = "done", !.status = status, !.message = message,
              !.locTenant = Null]

UncaughtResponse(q) == Respond(q, 500, "Internal server error")

\* catch (error) { res.status(401).json({ message: 'Invalid token' }) }
CaughtResponse(q) == Respond(q, 401, "Invalid token")

\* authenticatePlatformUser / authenticateTenantUser up to the first await:
\* token extraction and verifyToken; nextPc is the lookup the middleware awaits
AuthenticateStart(q, nextPc) ==
    LET token == ExtractToken(q.authorization, q.cookie) IN
    IF NoToken(token) THEN Respond(q, 401, "Access token required")
    ELSE IF VerifyToken(token) = Null THEN CaughtResponse(q)
    ELSE [q EXCEPT !.decoded = VerifyToken(token), !.pc = nextPc]

\* next(): on to the route's guard when it has one, else into the handler
AfterAuthentication(q) ==
    [q EXCEPT !.pc = IF RouteGuarded(q.route) THEN "guard" ELSE "handler",
              !.locTenant = Null]

\* authenticatePlatformUser after await platformStorage.getPlatformUser(decoded.userId)
AuthenticatePlatformUserLoaded(q, user) ==
    IF PrincipalRejected(user)
    THEN Respond(q, 401, "Invalid or inactive user")
    ELSE AfterAuthentication([q EXCEPT !.user = AttachedUser(user, q.decoded)])

\* authenticateTenantUser after await platformStorage.getTenant(decoded.tenantId)
AuthenticateTenantUserTenantLoaded(q, tenant) ==
    IF TenantRejected(tenant)
    THEN Respond(q, 401, "Invalid or inactive tenant")
    ELSE [q EXCEPT !.locTenant = tenant, !.pc = "getUser"]

\* authenticateTenantUser after await tenantStorage.getUser(decoded.userId)
AuthenticateTenantUserLoaded(q, user) ==
    IF TenantPrincipalRejected(user, q.locTenant)
    THEN Respond(q, 401, "Invalid or inactive user")
    ELSE AfterAuthentication([q EXCEPT !.user = AttachedUser(user, q.decoded),
                                       !.tenant = ReqTenant(q.locTenant)])

\* the guard of the route: next() or 403
GuardChecked(q) ==
    IF RequireRole(RouteRoles(q.route), q.user)
    THEN [q EXCEPT !.pc = "handler"]
    ELSE Respond(q, 403, "Insufficient permissions")

\* -------------------------------------------------------------------------
\* Requests that reach createTenantStorage.  Every call site (the tenant
\* middleware, tenant login, the dashboard, every tenant handler) has the same
\* shape: an await, then the synchronous createTenantStorage(cs), then an
\* awaited query on the handle it returned.
\* -------------------------------------------------------------------------
PoolCallers == 1..NumCallers

InitPool ==
    /\ tenants = Null /\ platformUsers = Null /\ users = Null
    /\ stripe = Null /\ cookies = Null
    /\ tenantConnections = << >>
    /\ pools = << >>
    /\ reqs = [r \in PoolCallers |-> [pc |-> "idle", cs |-> NoStr, db |-> 0, built |-> FALSE]]
    /\ nReq = 0
    /\ now = 0

\* a request arrives and suspends at the await that precedes createTenantStorage
PoolArrive(r, cs) ==
    /\ reqs[r].pc = "idle"
    /\ reqs' = [reqs EXCEPT ![r] = [pc |-> "awaiting", cs |-> cs, db |-> 0, built |-> FALSE]]
    /\ UNCHANGED <<tenants, platformUsers, users, tenantConnections, pools,
                   stripe, cookies, nReq, now>>

\* the await resolves: createTenantStorage(cs) runs to completion, the query is
\* issued; built records that this call constructed the Pool.  new Pool(...)
\* opens no connection, so the call returns a handle whether or not the store
\* can be reached.
PoolCreateTenantStorage(r) ==
    /\ reqs[r].pc = "awaiting"
    /\ tenantConnections' = GetTenantDbConns(tenantConnections, pools, reqs[r].cs)
    /\ pools' = GetTenantDbPools(tenantConnections, pools, reqs[r].cs)
    /\ reqs' = [reqs EXCEPT ![r].pc = "querying",
                            ![r].db = CreateTenantStorage(tenantConnections, pools, reqs[r].cs),
                            ![r].built = Len(pools') > Len(pools)]
    /\ UNCHANGED <<tenants, platformUsers, users, stripe, cookies, nReq, now>>

\* the query resolves and the response is sent
PoolRespond(r) ==
    /\ reqs[r].pc = "querying"
    /\ reqs' = [reqs EXCEPT ![r].pc = "done"]
    /\ UNCHANGED <<tenants, platformUsers, users, tenantConnections, pools,
                   stripe, cookies, nReq, now>>

\* the store cannot be reached: the pool fails to connect, the query rejects
\* and the error propagates to the caller
PoolReject(r) ==
    /\ reqs[r].pc = "querying"
    /\ reqs' = [reqs EXCEPT ![r].pc = "failed"]
    /\ UNCHANGED <<tenants, platformUsers, users, tenantConnections, pools,
                   stripe, cookies, nReq, now>>

NextPool ==
    \/ \E r \in PoolCallers, cs \in ConnStrings : PoolArrive(r, cs)
    \/ \E r \in PoolCallers : PoolCreateTenantStorage(r)
    \/ \E r \in PoolCallers : PoolRespond(r)
    \/ \E r \in PoolCallers : PoolReject(r)

SpecPool == InitPool /\ [][NextPool]_vars

\* ---- C1 -----------------------------------------------------------------
PoolsBuiltFor(cs) == {i \in 1..Len(pools) : pools[i] = cs}

\* C1: single-flight pool creation.  However the concurrent requests for one
\* connection string interleave, at most one Pool is ever constructed for it,
\* exactly one once any caller has been served, and every caller served holds
\* the one handle the registry maps the string to.
C1_SingleFlight ==
    \A cs \in ConnStrings :
        LET served == {r \in PoolCallers : reqs[r].cs = cs /\ reqs[r].db # 0} IN
        /\ Cardinality(PoolsBuiltFor(cs)) <= 1
        /\ served # {} =>
              /\ Cardinality(PoolsBuiltFor(cs)) = 1
              /\ cs \in DOMAIN tenantConnections
              /\ \A r \in served : reqs[r].db = tenantConnections[cs]
              /\ pools[tenantConnections[cs]] = cs

\* two requests for the same unseen string were in flight together (both had
\* arrived before either was served) and both have been served
C1_Witness ==
    \E r1, r2 \in PoolCallers :
        /\ r1 # r2
        /\ reqs[r1].cs = reqs[r2].cs
        /\ reqs[r1].pc = "querying" /\ reqs[r2].pc = "querying"
        /\ reqs[r1].db # 0 /\ reqs[r2].db # 0

\* =========================================================================
\* The server with one client session issuing requests one after another: a
\* platform operator's, which uses the platform routes, or a tenant employee's,
\* which uses the tenant routes.  Other sessions act through the storage API,
\* between any two awaits of its requests, on the rows its requests read: the
\* operator's own platform_users row, or the employee's tenant row and users row.
\* =========================================================================
SessionKinds == {"operator", "employee"}

SeedTenants ==
    << [TenantRow(1, "demo", NoStr, "active") EXCEPT !.subscriptionPlan = "premium"],
       TenantRow(2, "acme", DATABASE_URL, "active") >>

SeedPlatformUsers ==
    << PlatformUserRow(1, "admin@platform.com", HashPassword("secret"), "super_admin", TRUE),
       PlatformUserRow(2, "owner@platform.com", HashPassword("secret"), "product_owner", TRUE) >>

SeedUsers ==
    << UserRow(1, "user@demo.com", HashPassword("secret"), "admin", TRUE, 1),
       UserRow(2, "kim@acme.com", HashPassword("secret"), "manager", TRUE, 2) >>

IdleRequest == [NewRequest(NoStr, NoStr, 0, Null, Null, Null) EXCEPT !.pc = "idle"]

Init ==
    /\ tenants = SeedTenants
    /\ platformUsers = SeedPlatformUsers
    /\ users = SeedUsers
    /\ tenantConnections = << >>
    /\ pools = << >>
    /\ stripe = Null
    /\ cookies = [platformToken |-> Null, tenantToken |-> Null]
    /\ \E k \in SessionKinds : reqs = [c \in {k} |-> IdleRequest]
    /\ nReq = 0
    /\ now = 0

\* ---- the requests the client sends ---------------------------------------
LoginBody(email, password) == [email |-> email, password |-> password]

PlatformLoginBodies ==
    {LoginBody(e, "secret") : e \in {"admin@platform.com", "owner@platform.com", "nobody@x.com"}}
    \cup {LoginBody("admin@platform.com", "wrong"), LoginBody(NoStr, NoStr)}

TenantLoginBodies ==
    {LoginBody(e, "secret") : e \in {"user@demo.com", "kim@acme.com", "nobody@x.com"}}
    \cup {LoginBody("user@demo.com", "wrong"), LoginBody(NoStr, NoStr)}

RegisterBodies ==
    {[email |-> e, password |-> "secret", role |-> ro] :
        e \in {"new@platform.com", "admin@platform.com"}, ro \in PlatformRoles}
    \cup {Null}

CreateTenantBodies ==
    {[subdomain |-> sd, dbConnectionString |-> NoStr] : sd \in {"gamma", "acme"}} \cup {Null}

UpdateTenantBodies == {[status |-> st] : st \in TenantStatuses}

Req(route, subdomain, id, body) ==
    [route |-> route, subdomain |-> subdomain, id |-> id, body |-> body]

\* the requests of a platform operator's session
OperatorRequests ==
    {Req("POST /api/platform/auth/login", NoStr, 0, b) : b \in PlatformLoginBodies}
    \cup {Req("POST /api/platform/auth/logout", NoStr, 0, Null)}
    \cup {Req("GET /api/platform/auth/me", NoStr, 0, Null)}
    \cup {Req("POST /api/platform/auth/register", NoStr, 0, b) : b \in RegisterBodies}
    \cup {Req("GET /api/platform/tenants", NoStr, 0, Null)}
    \cup {Req("POST /api/platform/tenants", NoStr, 0, b) : b \in CreateTenantBodies}
    \cup {Req("PUT /api/platform/tenants/:id", NoStr, id, b) : id \in {1, 2}, b \in UpdateTenantBodies}
    \cup {Req("DELETE /api/platform/tenants/:id", NoStr, id, Null) : id \in {1, 2}}

\* the requests of a tenant employee's session
EmployeeRequests ==
    {Req("POST /api/tenant/:subdomain/auth/login", sd, 0, b) :
            sd \in {"demo", "acme"}, b \in TenantLoginBodies}
    \cup {Req("POST /api/tenant/:subdomain/auth/logout", sd, 0, Null) : sd \in {"demo"}}
    \cup {Req(ro, sd, 0, Null) :
            ro \in {"GET /api/tenant/:subdomain/auth/me",
                    "GET /api/tenant/:subdomain/users",
                    "GET /api/tenant/:subdomain/customers"},
            sd \in {"demo", "acme"}}

ClientRequests(c) == IF c = "operator" THEN OperatorRequests ELSE EmployeeRequests

\* what the client presents: its cookie jar, nothing, or a forged Bearer token
Credentials == {"cookie", "none", "forged"}

\* the token of the jar with its role claim rewritten and its signature kept
TamperedToken(jar) ==
    IF Len(jar) = 3 THEN <<jar[1], [jar[2] EXCEPT !.role = "super_admin"], jar[3]>> ELSE jar

\* the Authorization header and the cookie of a request, by what the client
\* chose to present; jar is the cookie its browser holds for the route's domain
HeaderOf(creds, jar) ==
    CASE creds = "forged" -> BearerHeader(ForgedToken)
      [] creds = "malformed" -> BearerHeader(MalformedToken)
      [] creds = "emptyBearer" -> BearerHeader(EmptyString)
      [] creds = "tampered" /\ jar # Null -> BearerHeader(TamperedToken(jar))
      [] creds = "bearer" /\ jar # Null -> BearerHeader(jar)
      [] creds = "basic" -> <<"Basic ", MalformedToken>>
      [] OTHER -> Null

CookieOf(creds, jar) == IF creds \in {"none", "bearer"} THEN Null ELSE jar

\* ---- request arrival: the middleware chain up to its first await ----------
StartRequest(c, in, creds) ==
    /\ reqs[c].pc \in {"idle", "done"}
    /\ nReq < MaxRequests
    /\ RouteAuth(in.route) = "none" => creds = "cookie"
    /\ nReq' = nReq + 1
    /\ LET jar == IF RouteAuth(in.route) = "platform" THEN cookies.platformToken
                  ELSE cookies.tenantToken
           q == NewRequest(in.route, in.subdomain, in.id, in.body,
                           HeaderOf(creds, jar), CookieOf(creds, jar))
       IN reqs' = [reqs EXCEPT ![c] =
              CASE RouteAuth(in.route) = "platform" -> AuthenticateStart(q, "getPlatformUser")
                [] RouteAuth(in.route) = "tenant" -> AuthenticateStart(q, "getTenant")
                [] OTHER -> [q EXCEPT !.pc = "handler"]]
    /\ UNCHANGED <<tenants, platformUsers, users, tenantConnections, pools,
                   stripe, cookies, now>>

\* ---- authentication middlewares -------------------------------------------
AuthenticatePlatformUser(c) ==
    /\ reqs[c].pc = "getPlatformUser"
    /\ reqs' = [reqs EXCEPT ![c] =
          AuthenticatePlatformUserLoaded(reqs[c], SelectById(platformUsers, reqs[c].decoded.userId))]
    /\ UNCHANGED <<tenants, platformUsers, users, tenantConnections, pools,
                   stripe, cookies, nReq, now>>

\* getTenant resolves; on success createTenantStorage runs and getUser is issued
AuthenticateTenantUserGetTenant(c) ==
    /\ reqs[c].pc = "getTenant"
    /\ LET q == AuthenticateTenantUserTenantLoaded(
                    reqs[c], SelectById(tenants, ClaimTenantId(reqs[c].decoded)))
           cs == ConnectionStringOf(q.locTenant)
       IN /\ reqs' = [reqs EXCEPT ![c] = q]
          /\ IF q.pc = "getUser"
             THEN /\ tenantConnections' = GetTenantDbConns(tenantConnections, pools, cs)
                  /\ pools' = GetTenantDbPools(tenantConnections, pools, cs)
             ELSE UNCHANGED <<tenantConnections, pools>>
    /\ UNCHANGED <<tenants, platformUsers, users, stripe, cookies, nReq, now>>

AuthenticateTenantUserGetUser(c) ==
    /\ reqs[c].pc = "getUser"
    /\ reqs' = [reqs EXCEPT ![c] =
          AuthenticateTenantUserLoaded(reqs[c], SelectById(users, reqs[c].decoded.userId))]
    /\ UNCHANGED <<tenants, platformUsers, users, tenantConnections, pools,
                   stripe, cookies, nReq, now>>

\* ---- role guard -------------------------------------------------------------
Guard(c) ==
    /\ reqs[c].pc = "guard"
    /\ reqs' = [reqs EXCEPT ![c] = GuardChecked(reqs[c])]
    /\ UNCHANGED <<tenants, platformUsers, users, tenantConnections, pools,
                   stripe, cookies, nReq, now>>

\* ---- login and logout handlers --------------------------------------------
\* res.cookie(<domain>Token, token) and res.json({user, token})
LoggedIn(q, token) ==
    [q EXCEPT !.pc = "done", !.status = 200, !.resToken = token, !.ran = TRUE,
              !.locTenant = Null]

\* POST /api/platform/auth/login
PlatformLogin(c) ==
    /\ reqs[c].pc = "handler"
    /\ reqs[c].route = "POST /api/platform/auth/login"
    /\ LET q == [reqs[c] EXCEPT !.ran = TRUE]
           b == q.body
           user == SelectByEmail(platformUsers, b.email)
           token == GenerateToken([userId |-> user.id, role |-> user.role, type |-> "platform"])
       IN IF b.email = NoStr \/ b.password = NoStr
          THEN /\ reqs' = [reqs EXCEPT ![c] = Respond(q, 400, "Email and password required")]
               /\ UNCHANGED cookies
          ELSE IF user = Null \/ ~ComparePasswords(b.password, user.password)
          THEN /\ reqs' = [reqs EXCEPT ![c] =
                              Respond(q, 401, "Invalid credentials")]
               /\ UNCHANGED cookies
          ELSE IF ~user.isActive
          THEN /\ reqs' = [reqs EXCEPT ![c] =
                              Respond(q, 401, "Account is disabled")]
               /\ UNCHANGED cookies
          ELSE /\ reqs' = [reqs EXCEPT ![c] = LoggedIn(q, token)]
               /\ cookies' = [cookies EXCEPT !.platformToken = token]
    /\ UNCHANGED <<tenants, platformUsers, users, tenantConnections, pools,
                   stripe, nReq, now>>

\* POST /api/tenant/:subdomain/auth/login up to the user lookup: body check,
\* getTenantBySubdomain, createTenantStorage
TenantLoginGetTenant(c) ==
    /\ reqs[c].pc = "handler"
    /\ reqs[c].route = "POST /api/tenant/:subdomain/auth/login"
    /\ LET q == [reqs[c] EXCEPT !.ran = TRUE]
           b == q.body
           tenant == GetTenantBySubdomain(tenants, q.subdomain)
           cs == ConnectionStringOf(tenant)
       IN IF b.email = NoStr \/ b.password = NoStr
          THEN /\ reqs' = [reqs EXCEPT ![c] = Respond(q, 400, "Email and password required")]
               /\ UNCHANGED <<tenantConnections, pools>>
          ELSE IF TenantRejected(tenant)
          THEN /\ reqs' = [reqs EXCEPT ![c] =
                              Respond(q, 404,
                                      "Tenant not found or inactive")]
               /\ UNCHANGED <<tenantConnections, pools>>
          ELSE /\ reqs' = [reqs EXCEPT ![c] = [q EXCEPT !.locTenant = tenant, !.pc = "loginGetUser"]]
               /\ tenantConnections' = GetTenantDbConns(tenantConnections, pools, cs)
               /\ pools' = GetTenantDbPools(tenantConnections, pools, cs)
    /\ UNCHANGED <<tenants, platformUsers, users, stripe, cookies, nReq, now>>

\* POST /api/tenant/:subdomain/auth/login from getUserByEmail on
TenantLoginGetUser(c) ==
    /\ reqs[c].pc = "loginGetUser"
    /\ LET q == reqs[c]
           b == q.body
           user == SelectByEmail(users, b.email)
           token == GenerateToken([userId |-> user.id, tenantId |-> q.locTenant.id,
                                   role |-> user.role, type |-> "tenant"])
       IN IF user = Null \/ user.tenantId # q.locTenant.id
          THEN /\ reqs' = [reqs EXCEPT ![c] =
                              Respond(q, 401, "Invalid credentials")]
               /\ UNCHANGED cookies
          ELSE IF ~ComparePasswords(b.password, user.password)
          THEN /\ reqs' = [reqs EXCEPT ![c] =
                              Respond(q, 401, "Invalid credentials")]
               /\ UNCHANGED cookies
          ELSE IF ~user.isActive
          THEN /\ reqs' = [reqs EXCEPT ![c] =
                              Respond(q, 401, "Account is disabled")]
               /\ UNCHANGED cookies
          ELSE /\ reqs' = [reqs EXCEPT ![c] = LoggedIn(q, token)]
               /\ cookies' = [cookies EXCEPT !.tenantToken = token]
    /\ UNCHANGED <<tenants, platformUsers, users, tenantConnections, pools,
                   stripe, nReq, now>>

\* POST /api/platform/auth/logout and POST /api/tenant/:subdomain/auth/logout
Logout(c) ==
    /\ reqs[c].pc = "handler"
    /\ reqs[c].route \in {"POST /api/platform/auth/logout",
                          "POST /api/tenant/:subdomain/auth/logout"}
    /\ reqs' = [reqs EXCEPT ![c] = [Respond(reqs[c], 200, "Logged out successfully")
                                        EXCEPT !.ran = TRUE]]
    /\ cookies' = IF reqs[c].route = "POST /api/platform/auth/logout"
                  THEN [cookies EXCEPT !.platformToken = Null]
                  ELSE [cookies EXCEPT !.tenantToken = Null]
    /\ UNCHANGED <<tenants, platformUsers, users, tenantConnections, pools,
                   stripe, nReq, now>>

\* ---- handlers that only read ----------------------------------------------
\* GET /api/platform/auth/me, GET /api/tenant/:subdomain/auth/me
CurrentUser(c) ==
    /\ reqs[c].pc = "handler"
    /\ reqs[c].route \in {"GET /api/platform/auth/me", "GET /api/tenant/:subdomain/auth/me"}
    /\ reqs' = [reqs EXCEPT ![c] = [reqs[c] EXCEPT !.pc = "done", !.status = 200, !.ran = TRUE]]
    /\ UNCHANGED <<tenants, platformUsers, users, tenantConnections, pools,
                   stripe, cookies, nReq, now>>

\* GET /api/platform/tenants
GetTenants(c) ==
    /\ reqs[c].pc = "handler"
    /\ reqs[c].route = "GET /api/platform/tenants"
    /\ reqs' = [reqs EXCEPT ![c] = [reqs[c] EXCEPT !.pc = "done", !.status = 200, !.ran = TRUE]]
    /\ UNCHANGED <<tenants, platformUsers, users, tenantConnections, pools,
                   stripe, cookies, nReq, now>>

\* GET /api/tenant/:subdomain/users, GET /api/tenant/:subdomain/customers:
\* createTenantStorage(req.tenant.connectionString), then one select by tenant id
TenantList(c) ==
    /\ reqs[c].pc = "handler"
    /\ reqs[c].route \in {"GET /api/tenant/:subdomain/users",
                          "GET /api/tenant/:subdomain/customers"}
    /\ tenantConnections' =
          GetTenantDbConns(tenantConnections, pools, reqs[c].tenant.connectionString)
    /\ pools' = GetTenantDbPools(tenantConnections, pools, reqs[c].tenant.connectionString)
    /\ reqs' = [reqs EXCEPT ![c] = [reqs[c] EXCEPT !.pc = "done", !.status = 200, !.ran = TRUE]]
    /\ UNCHANGED <<tenants, platformUsers, users, stripe, cookies, nReq, now>>

\* ---- platform handlers that write -------------------------------------------
\* POST /api/platform/auth/register up to the insert: parse, getPlatformUserByEmail
RegisterCheck(c) ==
    /\ reqs[c].pc = "handler"
    /\ reqs[c].route = "POST /api/platform/auth/register"
    /\ LET q == [reqs[c] EXCEPT !.ran = TRUE] IN
       reqs' = [reqs EXCEPT ![c] =
          IF q.body = Null THEN Respond(q, 500, "Internal server error")
          ELSE IF SelectByEmail(platformUsers, q.body.email) # Null
          THEN Respond(q, 400, "User already exists")
          ELSE [q EXCEPT !.pc = "registerInsert"]]
    /\ UNCHANGED <<tenants, platformUsers, users, tenantConnections, pools,
                   stripe, cookies, nReq, now>>

\* POST /api/platform/auth/register: hashPassword, createPlatformUser
RegisterInsert(c) ==
    /\ reqs[c].pc = "registerInsert"
    /\ LET q == reqs[c]
           row == PlatformUserRow(Len(platformUsers) + 1, q.body.email,
                                  HashPassword(q.body.password), q.body.role, TRUE)
       IN IF SelectByEmail(platformUsers, q.body.email) # Null
          THEN /\ reqs' = [reqs EXCEPT ![c] = Respond(q, 500, "Internal server error")]
               /\ UNCHANGED platformUsers
          ELSE /\ reqs' = [reqs EXCEPT ![c] = [q EXCEPT !.pc = "done", !.status = 201]]
               /\ platformUsers' = Append(platformUsers, row)
    /\ UNCHANGED <<tenants, users, tenantConnections, pools, stripe, cookies, nReq, now>>

\* POST /api/platform/tenants up to the insert: parse, getTenantBySubdomain
CreateTenantCheck(c) ==
    /\ reqs[c].pc = "handler"
    /\ reqs[c].route = "POST /api/platform/tenants"
    /\ LET q == [reqs[c] EXCEPT !.ran = TRUE] IN
       reqs' = [reqs EXCEPT ![c] =
          IF q.body = Null THEN Respond(q, 500, "Internal server error")
          ELSE IF GetTenantBySubdomain(tenants, q.body.subdomain) # Null
          THEN Respond(q, 400, "Subdomain already exists")
          ELSE [q EXCEPT !.pc = "tenantInsert"]]
    /\ UNCHANGED <<tenants, platformUsers, users, tenantConnections, pools,
                   stripe, cookies, nReq, now>>

\* POST /api/platform/tenants: createTenant
CreateTenantInsert(c) ==
    /\ reqs[c].pc = "tenantInsert"
    /\ LET q == reqs[c]
           row == TenantRow(Len(tenants) + 1, q.body.subdomain,
                            IF q.body.dbConnectionString # NoStr
                            THEN q.body.dbConnectionString ELSE DATABASE_URL,
                            "active")
       IN IF GetTenantBySubdomain(tenants, q.body.subdomain) # Null
          THEN /\ reqs' = [reqs EXCEPT ![c] = Respond(q, 500, "Internal server error")]
               /\ UNCHANGED tenants
          ELSE /\ reqs' = [reqs EXCEPT ![c] = [q EXCEPT !.pc = "done", !.status = 201]]
               /\ tenants' = Append(tenants, row)
    /\ UNCHANGED <<platformUsers, users, tenantConnections, pools, stripe, cookies, nReq, now>>

\* PUT /api/platform/tenants/:id
UpdateTenant(c) ==
    /\ reqs[c].pc = "handler"
    /\ reqs[c].route = "PUT /api/platform/tenants/:id"
    /\ tenants' = UpdateById(tenants, reqs[c].id, reqs[c].body)
    /\ reqs' = [reqs EXCEPT ![c] = [reqs[c] EXCEPT !.pc = "done", !.status = 200, !.ran = TRUE]]
    /\ UNCHANGED <<platformUsers, users, tenantConnections, pools, stripe, cookies, nReq, now>>

\* DELETE /api/platform/tenants/:id
DeleteTenant(c) ==
    /\ reqs[c].pc = "handler"
    /\ reqs[c].route = "DELETE /api/platform/tenants/:id"
    /\ tenants' = DeleteById(tenants, reqs[c].id)
    /\ reqs' = [reqs EXCEPT ![c] = [Respond(reqs[c], 200, "Tenant deleted successfully")
                                        EXCEPT !.ran = TRUE]]
    /\ UNCHANGED <<platformUsers, users, tenantConnections, pools, stripe, cookies, nReq, now>>

\* ---- other sessions acting on the stores through the storage API -----------
UserUpdates ==
    {[isActive |-> b] : b \in BOOLEAN}
    \cup {[role |-> ro] : ro \in TenantRoles}
    \cup {[tenantId |-> t] : t \in {1, 2}}

PlatformUserUpdates ==
    {[isActive |-> b] : b \in BOOLEAN} \cup {[role |-> ro] : ro \in PlatformRoles \cup {OtherRole}}

\* platformStorage.updateTenant(1, {status}) while an employee's session runs
StorageUpdateTenant(data) ==
    /\ "employee" \in DOMAIN reqs
    /\ tenants' = UpdateById(tenants, 1, data)
    /\ tenants' # tenants
    /\ UNCHANGED <<platformUsers, users, tenantConnections, pools, stripe, cookies, reqs, nReq, now>>

\* platformStorage.deleteTenant(1) while an employee's session runs
StorageDeleteTenant ==
    /\ "employee" \in DOMAIN reqs
    /\ tenants' = DeleteById(tenants, 1)
    /\ tenants' # tenants
    /\ UNCHANGED <<platformUsers, users, tenantConnections, pools, stripe, cookies, reqs, nReq, now>>

\* platformStorage.updatePlatformUser(1, data) while an operator's session runs
StorageUpdatePlatformUser(data) ==
    /\ "operator" \in DOMAIN reqs
    /\ platformUsers' = UpdateById(platformUsers, 1, data)
    /\ platformUsers' # platformUsers
    /\ UNCHANGED <<tenants, users, tenantConnections, pools, stripe, cookies, reqs, nReq, now>>

\* tenantStorage.updateUser(1, data) while an employee's session runs
StorageUpdateUser(data) ==
    /\ "employee" \in DOMAIN reqs
    /\ users' = UpdateById(users, 1, data)
    /\ users' # users
    /\ UNCHANGED <<tenants, platformUsers, tenantConnections, pools, stripe, cookies, reqs, nReq, now>>

\* tenantStorage.deleteUser(1) while an employee's session runs
StorageDeleteUser ==
    /\ "employee" \in DOMAIN reqs
    /\ users' = DeleteById(users, 1)
    /\ users' # users
    /\ UNCHANGED <<tenants, platformUsers, tenantConnections, pools, stripe, cookies, reqs, nReq, now>>

Next ==
    \/ \E c \in DOMAIN reqs : \E in \in ClientRequests(c), creds \in Credentials :
            StartRequest(c, in, creds)
    \/ \E c \in DOMAIN reqs : AuthenticatePlatformUser(c)
    \/ \E c \in DOMAIN reqs : AuthenticateTenantUserGetTenant(c)
    \/ \E c \in DOMAIN reqs : AuthenticateTenantUserGetUser(c)
    \/ \E c \in DOMAIN reqs : Guard(c)
    \/ \E c \in DOMAIN reqs : PlatformLogin(c)
    \/ \E c \in DOMAIN reqs : TenantLoginGetTenant(c)
    \/ \E c \in DOMAIN reqs : TenantLoginGetUser(c)
    \/ \E c \in DOMAIN reqs : Logout(c)
    \/ \E c \in DOMAIN reqs : CurrentUser(c)
    \/ \E c \in DOMAIN reqs : GetTenants(c)
    \/ \E c \in DOMAIN reqs : TenantList(c)
    \/ \E c \in DOMAIN reqs : RegisterCheck(c)
    \/ \E c \in DOMAIN reqs : RegisterInsert(c)
    \/ \E c \in DOMAIN reqs : CreateTenantCheck(c)
    \/ \E c \in DOMAIN reqs : CreateTenantInsert(c)
    \/ \E c \in DOMAIN reqs : UpdateTenant(c)
    \/ \E c \in DOMAIN reqs : DeleteTenant(c)
    \/ \E data \in UpdateTenantBodies : StorageUpdateTenant(data)
    \/ StorageDeleteTenant
    \/ \E data \in PlatformUserUpdates : StorageUpdatePlatformUser(data)
    \/ \E data \in UserUpdates : StorageUpdateUser(data)
    \/ StorageDeleteUser

Spec == Init /\ [][Next]_vars

\* =========================================================================
\* Properties of authentication and authorization (checked under Spec)
\* =========================================================================
InFlight(q) == q.pc # "idle"
TenantProtected(q) == InFlight(q) /\ RouteAuth(q.route) = "tenant"
PlatformProtected(q) == InFlight(q) /\ RouteAuth(q.route) = "platform"

\* the route's handler has been entered (next() reached it)
HandlerRuns(q) == q.ran \/ q.pc = "handler"

\* the request was answered with this status and message and its handler never ran
RejectedWith(q, status, message) ==
    /\ q.pc = "done" /\ q.status = status /\ q.message = message
    /\ ~q.ran /\ q.user = Null /\ q.tenant = Null /\ q.resToken = Null

\* ---- C2 -----------------------------------------------------------------
\* C2: a tenant-protected request whose token carries another tenant id than
\* the id of the tenant its :subdomain resolves to is rejected with 401 and
\* its handler never runs.
C2_SubdomainMismatchRejected ==
    \A c \in DOMAIN reqs :
        LET q == reqs[c]
            resolved == GetTenantBySubdomain(tenants, q.subdomain)
        IN (/\ TenantProtected(q)
            /\ q.decoded # Null
            /\ resolved # Null
            /\ ClaimTenantId(q.decoded) # resolved.id)
           => /\ ~HandlerRuns(q)
              /\ q.pc = "done" => q.status = 401

\* ---- C3 -----------------------------------------------------------------
\* C3: when the principal loaded by authenticateTenantUser or by tenant login
\* belongs to another tenant than the tenant loaded for the request, the
\* request ends with 401, nothing is attached and no token is issued; the
\* middleware answers exactly as for a missing or an inactive principal; and a
\* handler behind authenticateTenantUser always sees req.user.tenantId = req.tenant.id.
C3_TenantMismatchFails ==
    /\ [][\A c \in DOMAIN reqs :
            /\ (reqs[c].pc = "getUser" /\ reqs'[c].pc # "getUser") =>
                  LET user == SelectById(users, reqs[c].decoded.userId) IN
                  (user = Null \/ ~user.isActive \/ user.tenantId # reqs[c].locTenant.id)
                      => RejectedWith(reqs'[c], 401, "Invalid or inactive user")
            /\ (reqs[c].pc = "loginGetUser" /\ reqs'[c].pc # "loginGetUser") =>
                  LET user == SelectByEmail(users, reqs[c].body.email) IN
                  (user # Null /\ user.tenantId # reqs[c].locTenant.id)
                      => /\ reqs'[c].pc = "done" /\ reqs'[c].status = 401
                         /\ reqs'[c].resToken = Null /\ cookies' = cookies
         ]_vars
    /\ [](\A c \in DOMAIN reqs :
            (TenantProtected(reqs[c]) /\ HandlerRuns(reqs[c]))
                => /\ reqs[c].user # Null /\ reqs[c].tenant # Null
                   /\ reqs[c].user.tenantId = reqs[c].tenant.id)

\* the middleware turned away an existing, active principal of an active tenant
\* because the principal belongs to another tenant
C3_Witness ==
    \E c \in DOMAIN reqs :
        LET q == reqs[c] IN
        /\ TenantProtected(q)
        /\ RejectedWith(q, 401, "Invalid or inactive user")
        /\ q.decoded # Null
        /\ LET user == SelectById(users, q.decoded.userId)
               tenant == SelectById(tenants, q.decoded.tenantId)
           IN /\ user # Null /\ user.isActive
              /\ tenant # Null /\ tenant.status = "active"
              /\ user.tenantId # tenant.id

\* ---- C6 -----------------------------------------------------------------
\* C6: the tenant middleware and tenant login decide on the tenant row as it is
\* in the platform store when the request reads it: missing, inactive and
\* suspended all end the request the same way (401 in the middleware, 404 in
\* login), and an active tenant lets the request go on.
C6_TenantStatusReadEachRequest ==
    [][\A c \in DOMAIN reqs :
         /\ (reqs[c].pc = "getTenant" /\ reqs'[c].pc # "getTenant") =>
               LET t == SelectById(tenants, ClaimTenantId(reqs[c].decoded)) IN
               IF t = Null \/ t.status \in {"inactive", "suspended"}
               THEN RejectedWith(reqs'[c], 401, "Invalid or inactive tenant")
               ELSE reqs'[c].pc = "getUser" /\ reqs'[c].status = 0
         /\ (/\ reqs[c].route = "POST /api/tenant/:subdomain/auth/login"
             /\ reqs[c].pc = "handler" /\ reqs'[c].pc # "handler"
             /\ reqs[c].body.email # NoStr /\ reqs[c].body.password # NoStr) =>
               LET t == GetTenantBySubdomain(tenants, reqs[c].subdomain) IN
               IF t = Null \/ t.status \in {"inactive", "suspended"}
               THEN /\ reqs'[c].pc = "done" /\ reqs'[c].status = 404
                    /\ reqs'[c].message = "Tenant not found or inactive"
                    /\ reqs'[c].resToken = Null /\ cookies' = cookies
               ELSE reqs'[c].pc = "loginGetUser" /\ reqs'[c].status = 0
      ]_vars

\* a token that login issued (the tenant was active then) is turned away now
\* that the tenant is suspended
C6_Witness ==
    \E c \in DOMAIN reqs :
        LET q == reqs[c] IN
        /\ TenantProtected(q)
        /\ q.authorization = Null /\ q.cookie # Null /\ q.cookie = cookies.tenantToken
        /\ RejectedWith(q, 401, "Invalid or inactive tenant")
        /\ SelectById(tenants, q.decoded.tenantId) # Null
        /\ SelectById(tenants, q.decoded.tenantId).status = "suspended"

\* ---- C7 -----------------------------------------------------------------
\* C7: in both domains a request with a valid token is answered 401 when the
\* principal its userId names is missing or inactive at the time the
\* middleware loads it, and a handler only ever runs for an active principal.
C7_InactivePrincipalRejected ==
    /\ [][\A c \in DOMAIN reqs :
            /\ (reqs[c].pc = "getPlatformUser" /\ reqs'[c].pc # "getPlatformUser") =>
                  LET user == SelectById(platformUsers, reqs[c].decoded.userId) IN
                  IF user = Null \/ ~user.isActive
                  THEN RejectedWith(reqs'[c], 401, "Invalid or inactive user")
                  ELSE reqs'[c].status = 0 /\ reqs'[c].user # Null
            /\ (reqs[c].pc = "getUser" /\ reqs'[c].pc # "getUser") =>
                  LET user == SelectById(users, reqs[c].decoded.userId) IN
                  (user = Null \/ ~user.isActive)
                      => RejectedWith(reqs'[c], 401, "Invalid or inactive user")
         ]_vars
    /\ [](\A c \in DOMAIN reqs :
            ((TenantProtected(reqs[c]) \/ PlatformProtected(reqs[c])) /\ HandlerRuns(reqs[c]))
                => reqs[c].user # Null /\ reqs[c].user.isActive)

\* a token that login issued is turned away now that its principal is
\* deactivated or deleted
C7_Witness ==
    \E c \in DOMAIN reqs :
        LET q == reqs[c] IN
        /\ TenantProtected(q) \/ PlatformProtected(q)
        /\ q.authorization = Null /\ q.cookie # Null
        /\ RejectedWith(q, 401, "Invalid or inactive user")
        /\ LET user == IF TenantProtected(q) THEN SelectById(users, q.decoded.userId)
                       ELSE SelectById(platformUsers, q.decoded.userId)
           IN user = Null \/ ~user.isActive

\* ---- C8 -----------------------------------------------------------------
\* C8: behind a role guard the handler runs exactly when the principal that
\* authentication loaded from the store holds a role of the guard's set, and
\* the request is answered 403 otherwise; the role claim of the token plays no part.
C8_GuardUsesStoredRole ==
    /\ [][\A c \in DOMAIN reqs :
            /\ (reqs[c].pc = "getPlatformUser" /\ reqs'[c].pc \in {"guard", "handler"}) =>
                  reqs'[c].user = SelectById(platformUsers, reqs[c].decoded.userId)
            /\ (reqs[c].pc = "getUser" /\ reqs'[c].pc \in {"guard", "handler"}) =>
                  reqs'[c].user = SelectById(users, reqs[c].decoded.userId)
            /\ reqs[c].pc = "guard" =>
                  /\ reqs[c].user # Null
                  /\ IF reqs[c].user.role \in RouteRoles(reqs[c].route)
                     THEN reqs'[c].pc \in {"guard", "handler"}
                     ELSE reqs'[c].pc = "guard" \/
                          (reqs'[c].pc = "done" /\ reqs'[c].status = 403 /\ ~reqs'[c].ran)
         ]_vars
    /\ [](\A c \in DOMAIN reqs :
            LET q == reqs[c] IN
            (InFlight(q) /\ RouteGuarded(q.route)) =>
                /\ HandlerRuns(q) => q.user # Null /\ q.user.role \in RouteRoles(q.route)
                /\ q.status = 403 => /\ ~q.ran
                                     /\ q.user # Null
                                     /\ q.user.role \notin RouteRoles(q.route))

\* the token still claims a role the guard accepts, the stored role was changed
\* to one it does not accept, and the request is answered 403
C8_Witness ==
    \E c \in DOMAIN reqs :
        LET q == reqs[c] IN
        /\ InFlight(q) /\ RouteGuarded(q.route)
        /\ q.pc = "done" /\ q.status = 403 /\ ~q.ran
        /\ q.decoded.role \in RouteRoles(q.route)
        /\ q.user.role \notin RouteRoles(q.route)

\* ---- C9 -----------------------------------------------------------------
RoleRank(role) == CASE role = "user" -> 1 [] role = "manager" -> 2 [] role = "admin" -> 3

\* on every tenant route of the route table a role that is let through lets
\* every higher role through
TenantRoutesMonotone ==
    \A e \in RouteTable :
        e[2] = "tenant" =>
            \A lo, hi \in TenantRoles :
                (RoleRank(lo) < RoleRank(hi) /\ RouteAuthorizes(e[1], lo))
                    => RouteAuthorizes(e[1], hi)

\* C9: the tenant gates are nested, admin-only within manager-or-above within
\* any-user, and on every tenant route of the route table a role that is let
\* through lets every higher role through; no request is refused while a lower
\* role would have passed the same route.
C9_TenantGatesMonotone ==
    /\ requireTenantAdmin \subseteq requireTenantManager
    /\ requireTenantManager \subseteq requireTenantUser
    /\ TenantRoutesMonotone
    /\ \A c \in DOMAIN reqs :
          LET q == reqs[c] IN
          (TenantProtected(q) /\ q.status = 403 /\ q.user.role \in TenantRoles) =>
              \A lo \in TenantRoles :
                  RoleRank(lo) < RoleRank(q.user.role) => ~RouteAuthorizes(q.route, lo)

\* an admin passed a manager-or-above gate
C9_Witness ==
    \E c \in DOMAIN reqs :
        LET q == reqs[c] IN
        /\ TenantProtected(q) /\ RouteGuarded(q.route) /\ q.ran
        /\ RouteRoles(q.route) = requireTenantManager
        /\ q.user.role = "admin"

\* ---- C10 ----------------------------------------------------------------
SuperAdminRoutes == {"DELETE /api/platform/tenants/:id", "POST /api/platform/auth/register"}
PlatformAdminRoutes ==
    {"GET /api/platform/tenants", "POST /api/platform/tenants", "PUT /api/platform/tenants/:id"}

\* C10: tenant deletion and platform registration run only for an active
\* principal whose stored role is super_admin; a product_owner gets 403, and no
\* tenant row disappears and no platform_users row appears on its behalf;
\* tenant listing, creation and update run for exactly super_admin and product_owner.
C10_PlatformEndpoints ==
    /\ [](\A c \in DOMAIN reqs :
            LET q == reqs[c] IN
            /\ (InFlight(q) /\ q.route \in SuperAdminRoutes) =>
                  /\ (HandlerRuns(q) \/ q.pc \in {"registerInsert"} \/ q.status \in {200, 201})
                        => q.user # Null /\ q.user.isActive /\ q.user.role = "super_admin"
                  /\ (q.user # Null /\ q.user.role # "super_admin" /\ q.pc = "done")
                        => q.status = 403 /\ ~q.ran
            /\ (InFlight(q) /\ q.route \in PlatformAdminRoutes /\ q.user # Null) =>
                  /\ HandlerRuns(q) => q.user.role \in {"super_admin", "product_owner"}
                  /\ (q.pc = "done" /\ q.user.role \in {"super_admin", "product_owner"}) => q.ran
                  /\ (q.pc = "done" /\ q.user.role \notin {"super_admin", "product_owner"})
                        => q.status = 403 /\ ~q.ran)
    /\ [][\A c \in DOMAIN reqs :
            (c = "operator" /\
             (Len(platformUsers') > Len(platformUsers)
                \/ \E i \in 1..Len(tenants) : tenants[i] # Null /\ tenants'[i] = Null))
                => /\ reqs[c].route \in SuperAdminRoutes
                   /\ reqs[c].user # Null /\ reqs[c].user.role = "super_admin"
         ]_vars

\* a product_owner asked for a tenant deletion and was answered 403
C10_Witness ==
    \E c \in DOMAIN reqs :
        LET q == reqs[c] IN
        /\ InFlight(q) /\ q.route = "DELETE /api/platform/tenants/:id"
        /\ q.user # Null /\ q.user.role = "product_owner"
        /\ q.pc = "done" /\ q.status = 403 /\ ~q.ran
        /\ SelectById(tenants, q.id) # Null

\* =========================================================================
\* routes.ts: subscription routes, with the billing provider.
\* Two browser tabs of the demo tenant's admin, already logged in, send
\* subscription requests that interleave at their awaits.  Every call to the
\* billing provider either resolves or rejects.
\* =========================================================================
ThirtyDays == 30

\* the provider's state: its customers (each with the metadata.tenantId it was
\* created with) and its subscriptions, both in creation order
StripeInit == [customers |-> << >>, subscriptions |-> << >>]
CustomerId(n) == "cus_" \o ToString(n)
SubscriptionId(n) == "sub_" \o ToString(n)
StripeError == "StripeError"
PlanTypeError == "Cannot read properties of undefined (reading 'charAt')"

\* stripe.customers.create({..., metadata: {tenantId, subdomain}})
StripeCustomersCreate(st, tenantId) ==
    [st EXCEPT !.customers = Append(@, [tenantId |-> tenantId])]

\* stripe.subscriptions.create({customer, ..., payment_behavior: 'default_incomplete'})
StripeSubscriptionsCreate(st, customer) ==
    [st EXCEPT !.subscriptions = Append(@, [customer |-> customer, status |-> "incomplete"])]

\* stripe.subscriptions.cancel(id) can resolve only for a subscription the
\* provider holds and has not canceled yet
StripeCanCancel(st, id) ==
    \E i \in 1..Len(st.subscriptions) :
        SubscriptionId(i) = id /\ st.subscriptions[i].status # "canceled"

StripeSubscriptionsCancel(st, id) ==
    [st EXCEPT !.subscriptions =
        [i \in 1..Len(@) |-> IF SubscriptionId(i) = id
                             THEN [@[i] EXCEPT !.status = "canceled"] ELSE @[i]]]

\* storage.ts updateTenantSubscription(id, subscription)
UpdateTenantSubscription(table, id, subscription) == UpdateById(table, id, subscription)

\* the handler has awaited this call, which resolved (ok) or rejected
Called(q, call, arg, ok) ==
    [q EXCEPT !.calls = Append(@, [call |-> call, arg |-> arg, ok |-> ok])]

SwallowsBillingError(q, ok, nextPc) == [q EXCEPT !.pc = nextPc]

\* an awaited billing call inside try { ... }: on to nextPc when it resolved,
\* the catch block's 500 with error.message when it rejected
AfterBillingCall(q, ok, nextPc) ==
    IF ok THEN [q EXCEPT !.pc = nextPc] ELSE Respond(q, 500, StripeError)

WritesWithoutCancelling(tenant) == FALSE

CancelsWhateverIsStored(tenant) == TRUE

\* if ((tenant as any).stripeSubscriptionId)
HasStripeSubscription(tenant) == tenant.stripeSubscriptionId # NoStr

\* upgrade, from customerId known up to the await of stripe.subscriptions.create:
\* plan.charAt(0) throws when the body has no plan
PrepareSubscription(q) ==
    IF q.body.plan = NoStr THEN Respond(q, 500, PlanTypeError)
    ELSE [q EXCEPT !.pc = "createSubscription"]

ClearsCustomer ==
    [subscriptionPlan |-> "free", subscriptionStatus |-> "active",
     stripeCustomerId |-> NoStr,
     stripeSubscriptionId |-> NoStr, subscriptionEndsAt |-> 0]

\* the fields the free path of upgrade writes
FreeSubscription ==
    [subscriptionPlan |-> "free", subscriptionStatus |-> "active",
     stripeSubscriptionId |-> NoStr, subscriptionEndsAt |-> 0]

ExpiryFromEpoch(q) ==
    [subscriptionPlan |-> q.body.plan, subscriptionStatus |-> "active",
     stripeCustomerId |-> q.customerId, stripeSubscriptionId |-> q.subscriptionId,
     subscriptionEndsAt |-> ThirtyDays]

\* the fields the paid path of upgrade writes; Date.now() is read as the
\* argument of the write is built
PaidSubscription(q) ==
    [subscriptionPlan |-> q.body.plan, subscriptionStatus |-> "active",
     stripeCustomerId |-> q.customerId, stripeSubscriptionId |-> q.subscriptionId,
     subscriptionEndsAt |-> now + ThirtyDays]

LeavesStatusActive ==
    [subscriptionPlan |-> "free", subscriptionStatus |-> "active",
     stripeSubscriptionId |-> NoStr, subscriptionEndsAt |-> 0]

\* the fields cancel writes
CancelledSubscription ==
    [subscriptionPlan |-> "free", subscriptionStatus |-> "cancelled",
     stripeSubscriptionId |-> NoStr, subscriptionEndsAt |-> 0]

\* ---- POST /api/tenant/:subdomain/subscription/upgrade ----------------------
UpgradeRoute == "POST /api/tenant/:subdomain/subscription/upgrade"
CancelRoute == "POST /api/tenant/:subdomain/subscription/cancel"
SubscriptionRoute == "GET /api/tenant/:subdomain/subscription"

\* await platformStorage.getTenantBySubdomain(subdomain) and the branches after it
UpgradeGetTenant(c) ==
    /\ reqs[c].pc = "handler" /\ reqs[c].route = UpgradeRoute
    /\ LET tenant == GetTenantBySubdomain(tenants, reqs[c].subdomain)
           q == [reqs[c] EXCEPT !.ran = TRUE, !.locTenant = tenant]
       IN reqs' = [reqs EXCEPT ![c] =
              IF tenant = Null THEN Respond(q, 404, "Tenant not found")
              ELSE IF q.body.plan = "free"
              THEN [q EXCEPT !.pc = IF HasStripeSubscription(tenant)
                                    THEN "upgradeCancel" ELSE "upgradeWriteFree"]
              ELSE IF tenant.stripeCustomerId = NoStr
              THEN [q EXCEPT !.pc = "createCustomer"]
              ELSE PrepareSubscription([q EXCEPT !.customerId = tenant.stripeCustomerId])]
    /\ UNCHANGED <<tenants, platformUsers, users, tenantConnections, pools,
                   stripe, cookies, nReq, now>>

\* await stripe.subscriptions.cancel(tenant.stripeSubscriptionId) on the free path
UpgradeCancelExisting(c) ==
    /\ reqs[c].pc = "upgradeCancel"
    /\ LET q == reqs[c]
           id == q.locTenant.stripeSubscriptionId
       IN \E ok \in BOOLEAN :
            /\ ok => StripeCanCancel(stripe, id)
            /\ stripe' = IF ok THEN StripeSubscriptionsCancel(stripe, id) ELSE stripe
            /\ reqs' = [reqs EXCEPT ![c] =
                   AfterBillingCall(Called(q, "stripe.subscriptions.cancel", id, ok),
                                    ok, "upgradeWriteFree")]
    /\ UNCHANGED <<tenants, platformUsers, users, tenantConnections, pools,
                   cookies, nReq, now>>

\* await platformStorage.updateTenantSubscription(tenant.id, {free ...}) and res.json
UpgradeWriteFree(c) ==
    /\ reqs[c].pc = "upgradeWriteFree"
    /\ LET q == reqs[c] IN
       /\ tenants' = UpdateTenantSubscription(tenants, q.locTenant.id,
              FreeSubscription)
       /\ reqs' = [reqs EXCEPT ![c] =
              Respond(Called(q, "updateTenantSubscription", q.locTenant.subdomain, TRUE),
                      200, "Downgraded to free plan")]
    /\ UNCHANGED <<platformUsers, users, tenantConnections, pools, stripe, cookies, nReq, now>>

\* await stripe.customers.create(...)
UpgradeCreateCustomer(c) ==
    /\ reqs[c].pc = "createCustomer"
    /\ LET q == reqs[c] IN
       \E ok \in BOOLEAN :
         LET created == IF ok THEN CustomerId(Len(stripe.customers) + 1) ELSE NoStr
             q1 == AfterBillingCall(
                       Called([q EXCEPT !.customerId = created],
                              "stripe.customers.create", q.locTenant.subdomain, ok),
                       ok, "createSubscription")
         IN /\ stripe' = IF ok THEN StripeCustomersCreate(stripe, q.locTenant.id) ELSE stripe
            /\ reqs' = [reqs EXCEPT ![c] =
                   IF q1.pc = "createSubscription" THEN PrepareSubscription(q1) ELSE q1]
    /\ UNCHANGED <<tenants, platformUsers, users, tenantConnections, pools,
                   cookies, nReq, now>>

\* await stripe.subscriptions.create(...)
UpgradeCreateSubscription(c) ==
    /\ reqs[c].pc = "createSubscription"
    /\ LET q == reqs[c] IN
       \E ok \in BOOLEAN :
         LET created == IF ok THEN SubscriptionId(Len(stripe.subscriptions) + 1) ELSE NoStr
         IN /\ stripe' = IF ok THEN StripeSubscriptionsCreate(stripe, q.customerId) ELSE stripe
            /\ reqs' = [reqs EXCEPT ![c] =
                   AfterBillingCall(
                       Called([q EXCEPT !.subscriptionId = created],
                              "stripe.subscriptions.create", q.customerId, ok),
                       ok, "upgradeWritePaid")]
    /\ UNCHANGED <<tenants, platformUsers, users, tenantConnections, pools,
                   cookies, nReq, now>>

\* await platformStorage.updateTenantSubscription(tenant.id, {plan ...}) and res.json
UpgradeWritePaid(c) ==
    /\ reqs[c].pc = "upgradeWritePaid"
    /\ LET q == reqs[c] IN
       /\ tenants' = UpdateTenantSubscription(tenants, q.locTenant.id,
              PaidSubscription(q))
       /\ reqs' = [reqs EXCEPT ![c] =
              Respond(Called(q, "updateTenantSubscription", q.locTenant.subdomain, TRUE),
                      200, "incomplete")]
    /\ UNCHANGED <<platformUsers, users, tenantConnections, pools, stripe, cookies, nReq, now>>

\* ---- POST /api/tenant/:subdomain/subscription/cancel -----------------------
CancelGetTenant(c) ==
    /\ reqs[c].pc = "handler" /\ reqs[c].route = CancelRoute
    /\ LET tenant == GetTenantBySubdomain(tenants, reqs[c].subdomain)
           q == [reqs[c] EXCEPT !.ran = TRUE, !.locTenant = tenant]
       IN reqs' = [reqs EXCEPT ![c] =
              IF tenant = Null THEN Respond(q, 404, "Tenant not found")
              ELSE [q EXCEPT !.pc = IF HasStripeSubscription(tenant)
                                    THEN "cancelStripe" ELSE "cancelWrite"]]
    /\ UNCHANGED <<tenants, platformUsers, users, tenantConnections, pools,
                   stripe, cookies, nReq, now>>

\* await stripe.subscriptions.cancel(tenant.stripeSubscriptionId)
CancelStripe(c) ==
    /\ reqs[c].pc = "cancelStripe"
    /\ LET q == reqs[c]
           id == q.locTenant.stripeSubscriptionId
       IN \E ok \in BOOLEAN :
            /\ ok => StripeCanCancel(stripe, id)
            /\ stripe' = IF ok THEN StripeSubscriptionsCancel(stripe, id) ELSE stripe
            /\ reqs' = [reqs EXCEPT ![c] =
                   AfterBillingCall(Called(q, "stripe.subscriptions.cancel", id, ok),
                                    ok, "cancelWrite")]
    /\ UNCHANGED <<tenants, platformUsers, users, tenantConnections, pools,
                   cookies, nReq, now>>

\* await platformStorage.updateTenantSubscription(tenant.id, {cancelled ...}) and res.json
CancelWrite(c) ==
    /\ reqs[c].pc = "cancelWrite"
    /\ LET q == reqs[c] IN
       /\ tenants' = UpdateTenantSubscription(tenants, q.locTenant.id,
              CancelledSubscription)
       /\ reqs' = [reqs EXCEPT ![c] =
              Respond(Called(q, "updateTenantSubscription", q.locTenant.subdomain, TRUE),
                      200, "Subscription cancelled successfully")]
    /\ UNCHANGED <<platformUsers, users, tenantConnections, pools, stripe, cookies, nReq, now>>

\* ---- GET /api/tenant/:subdomain/subscription -------------------------------
GetSubscription(c) ==
    /\ reqs[c].pc = "handler" /\ reqs[c].route = SubscriptionRoute
    /\ LET tenant == GetTenantBySubdomain(tenants, reqs[c].subdomain)
           q == [reqs[c] EXCEPT !.ran = TRUE]
       IN reqs' = [reqs EXCEPT ![c] =
              IF tenant = Null THEN Respond(q, 404, "Tenant not found")
              ELSE Respond(q, 200, tenant.subscriptionPlan)]
    /\ UNCHANGED <<tenants, platformUsers, users, tenantConnections, pools,
                   stripe, cookies, nReq, now>>

\* ---- the clock ---------------------------------------------------------------
\* a day passes
Tick ==
    /\ now < MaxClock
    /\ now' = now + 1
    /\ UNCHANGED <<tenants, platformUsers, users, tenantConnections, pools,
                   stripe, cookies, reqs, nReq>>

\* ---- the specification ------------------------------------------------------
Tabs == {"tab1", "tab2"}
\* the plans a request body may name: the three documented ones, one the
\* platform's own tenant form offers, and none at all
Plans == {"free", "standard", "enterprise", "premium", NoStr}

SubscriptionRequests ==
    {Req(UpgradeRoute, sub, 0, [plan |-> plan]) : sub \in {"demo", "acme"}, plan \in Plans}
    \cup {Req(CancelRoute, sub, 0, Null) : sub \in {"demo", "acme"}}
    \cup {Req(SubscriptionRoute, sub, 0, Null) : sub \in {"demo", "acme"}}

InitSub ==
    /\ now = 0
    /\ tenants = SeedTenants
    /\ platformUsers = SeedPlatformUsers
    /\ users = SeedUsers
    /\ tenantConnections = << >>
    /\ pools = << >>
    /\ stripe = StripeInit
    /\ cookies = [platformToken |-> Null,
                  tenantToken |-> GenerateToken([userId |-> 1, tenantId |-> 1,
                                                 role |-> "admin", type |-> "tenant"])]
    /\ reqs = [c \in Tabs |-> IdleRequest]
    /\ nReq = 0

NextSub ==
    \/ \E c \in DOMAIN reqs : \E in \in SubscriptionRequests :
            nReq < MaxSubscriptionRequests /\ StartRequest(c, in, "cookie")
    \/ \E c \in DOMAIN reqs : AuthenticateTenantUserGetTenant(c)
    \/ \E c \in DOMAIN reqs : AuthenticateTenantUserGetUser(c)
    \/ \E c \in DOMAIN reqs : UpgradeGetTenant(c)
    \/ \E c \in DOMAIN reqs : UpgradeCancelExisting(c)
    \/ \E c \in DOMAIN reqs : UpgradeWriteFree(c)
    \/ \E c \in DOMAIN reqs : UpgradeCreateCustomer(c)
    \/ \E c \in DOMAIN reqs : UpgradeCreateSubscription(c)
    \/ \E c \in DOMAIN reqs : UpgradeWritePaid(c)
    \/ \E c \in DOMAIN reqs : CancelGetTenant(c)
    \/ \E c \in DOMAIN reqs : CancelStripe(c)
    \/ \E c \in DOMAIN reqs : CancelWrite(c)
    \/ \E c \in DOMAIN reqs : GetSubscription(c)

SpecSub == InitSub /\ [][NextSub]_vars

\* ---- one tab: the subscription requests of one client, one after the other,
\* ---- while the clock advances ------------------------------------------------
InitSeq ==
    /\ now = 0
    /\ tenants = SeedTenants
    /\ platformUsers = SeedPlatformUsers
    /\ users = SeedUsers
    /\ tenantConnections = << >>
    /\ pools = << >>
    /\ stripe = StripeInit
    /\ cookies = [platformToken |-> Null,
                  tenantToken |-> GenerateToken([userId |-> 1, tenantId |-> 1,
                                                 role |-> "admin", type |-> "tenant"])]
    /\ reqs = [c \in {"tab1"} |-> IdleRequest]
    /\ nReq = 0

NextSeq ==
    \/ \E c \in DOMAIN reqs : \E in \in SubscriptionRequests :
            nReq < MaxRequests /\ StartRequest(c, in, "cookie")
    \/ \E c \in DOMAIN reqs : AuthenticateTenantUserGetTenant(c)
    \/ \E c \in DOMAIN reqs : AuthenticateTenantUserGetUser(c)
    \/ \E c \in DOMAIN reqs : UpgradeGetTenant(c)
    \/ \E c \in DOMAIN reqs : UpgradeCancelExisting(c)
    \/ \E c \in DOMAIN reqs : UpgradeWriteFree(c)
    \/ \E c \in DOMAIN reqs : UpgradeCreateCustomer(c)
    \/ \E c \in DOMAIN reqs : UpgradeCreateSubscription(c)
    \/ \E c \in DOMAIN reqs : UpgradeWritePaid(c)
    \/ \E c \in DOMAIN reqs : CancelGetTenant(c)
    \/ \E c \in DOMAIN reqs : CancelStripe(c)
    \/ \E c \in DOMAIN reqs : CancelWrite(c)
    \/ \E c \in DOMAIN reqs : GetSubscription(c)
    \/ now < MaxSubscriptionClock /\ Tick

SpecSeq == InitSeq /\ [][NextSeq]_vars

\* =========================================================================
\* Properties of the subscription routes (checked under SpecSub)
\* =========================================================================
BillingCalls ==
    {"stripe.customers.create", "stripe.subscriptions.create", "stripe.subscriptions.cancel"}

\* the stored subscription fields of every tenant
StoredSubscriptions(table) ==
    [i \in 1..Len(table) |->
        IF table[i] = Null THEN Null
        ELSE <<table[i].subscriptionPlan, table[i].subscriptionStatus,
               table[i].stripeCustomerId, table[i].stripeSubscriptionId,
               table[i].subscriptionEndsAt>>]

\* one of the request's billing calls was rejected
FailedCall(q) == \E i \in 1..Len(q.calls) : ~q.calls[i].ok

\* the request has written subscription fields
Wrote(q) == \E i \in 1..Len(q.calls) : q.calls[i].call = "updateTenantSubscription"

\* ---- C4 -----------------------------------------------------------------
\* C4: the step in which a billing call of an upgrade is rejected ends the
\* request with 500 and the provider's error and leaves every stored
\* subscription field as it was; such a request never writes; stored
\* subscription fields change only in the write step of some request; and the
\* write of an upgrade comes after all its billing calls, all of which resolved.
C4_FailedUpgradeWritesNothing ==
    /\ [][/\ \A c \in DOMAIN reqs :
                reqs[c].route = UpgradeRoute =>
                    /\ (reqs'[c].calls # reqs[c].calls /\ FailedCall(reqs'[c])) =>
                          /\ StoredSubscriptions(tenants') = StoredSubscriptions(tenants)
                          /\ reqs'[c].pc = "done" /\ reqs'[c].status = 500
                          /\ reqs'[c].message = StripeError
                    /\ (Wrote(reqs'[c]) /\ ~Wrote(reqs[c])) =>
                          /\ \A i \in 1..Len(reqs[c].calls) :
                                reqs[c].calls[i].call \in BillingCalls /\ reqs[c].calls[i].ok
                          /\ Len(reqs'[c].calls) = Len(reqs[c].calls) + 1
                          /\ reqs'[c].pc = "done" /\ reqs'[c].status = 200
          /\ StoredSubscriptions(tenants') # StoredSubscriptions(tenants) =>
                \E c \in DOMAIN reqs : Wrote(reqs'[c]) /\ ~Wrote(reqs[c])
         ]_vars
    /\ [](\A c \in DOMAIN reqs :
            (reqs[c].route = UpgradeRoute /\ FailedCall(reqs[c])) =>
                ~Wrote(reqs[c]) /\ reqs[c].pc = "done" /\ reqs[c].status = 500)

\* an upgrade whose customer was created and whose subscription creation was
\* rejected has answered 500, and the tenant still has no customer reference
C4_Witness ==
    \E c \in DOMAIN reqs :
        LET q == reqs[c] IN
        /\ q.route = UpgradeRoute /\ q.pc = "done" /\ q.status = 500
        /\ Len(q.calls) = 2
        /\ q.calls[1].call = "stripe.customers.create" /\ q.calls[1].ok
        /\ q.calls[2].call = "stripe.subscriptions.create" /\ ~q.calls[2].ok
        /\ Len(stripe.customers) = 1
        /\ StoredSubscriptions(tenants) = StoredSubscriptions(SeedTenants)

\* ---- C5 -----------------------------------------------------------------
\* C5: when the tenant a cancel request read has a subscription reference, the
\* request writes only after its one call stripe.subscriptions.cancel on that
\* reference has resolved, the provider then holding the subscription as
\* canceled; when that call is rejected the request answers 500 with the
\* provider's error, the stored subscription fields stay as they were and the
\* request never writes.
C5_CancelExternalFirst ==
    /\ [][\A c \in DOMAIN reqs :
            reqs[c].route = CancelRoute =>
                /\ (Wrote(reqs'[c]) /\ ~Wrote(reqs[c])) =>
                      IF reqs[c].locTenant.stripeSubscriptionId # NoStr
                      THEN /\ reqs[c].calls =
                                <<[call |-> "stripe.subscriptions.cancel",
                                   arg |-> reqs[c].locTenant.stripeSubscriptionId,
                                   ok |-> TRUE]>>
                           /\ ~StripeCanCancel(stripe, reqs[c].locTenant.stripeSubscriptionId)
                      ELSE reqs[c].calls = << >>
                /\ (reqs'[c].calls # reqs[c].calls /\ FailedCall(reqs'[c])) =>
                      /\ StoredSubscriptions(tenants') = StoredSubscriptions(tenants)
                      /\ reqs'[c].pc = "done" /\ reqs'[c].status = 500
                      /\ reqs'[c].message = StripeError
         ]_vars
    /\ [](\A c \in DOMAIN reqs :
            (reqs[c].route = CancelRoute /\ FailedCall(reqs[c])) =>
                ~Wrote(reqs[c]) /\ reqs[c].pc = "done" /\ reqs[c].status = 500)

\* a cancel request found a subscription reference, the provider rejected the
\* cancellation, and the tenant keeps its plan and its reference
C5_Witness ==
    \E c \in DOMAIN reqs :
        LET q == reqs[c]
            tenant == GetTenantBySubdomain(tenants, q.subdomain)
        IN /\ q.route = CancelRoute /\ q.pc = "done" /\ q.status = 500
           /\ Len(q.calls) = 1 /\ ~q.calls[1].ok
           /\ tenant.stripeSubscriptionId = q.calls[1].arg
           /\ tenant.subscriptionPlan = "standard"
           /\ StripeCanCancel(stripe, q.calls[1].arg)

\* =========================================================================
\* The authentication middlewares on their own: a logged-in client (its
\* tokens were issued at time 0) sends requests to protected routes with
\* whatever credentials it chooses, while the clock advances, rows change and
\* a store lookup or the pool access may throw.
\* =========================================================================
AllCredentials ==
    Credentials \cup {"malformed", "emptyBearer", "tampered", "bearer", "basic"}

AuthRequests(c) ==
    IF c = "operator"
    THEN {Req("GET /api/platform/auth/me", NoStr, 0, Null),
          Req("GET /api/platform/tenants", NoStr, 0, Null)}
    ELSE {Req("GET /api/tenant/:subdomain/auth/me", "demo", 0, Null),
          Req("GET /api/tenant/:subdomain/users", "demo", 0, Null)}

InitAuth ==
    /\ now = 0
    /\ tenants = SeedTenants
    /\ platformUsers = SeedPlatformUsers
    /\ users = SeedUsers
    /\ tenantConnections = << >>
    /\ pools = << >>
    /\ stripe = Null
    /\ cookies = [platformToken |-> GenerateToken([userId |-> 1, role |-> "super_admin",
                                                   type |-> "platform"]),
                  tenantToken |-> GenerateToken([userId |-> 1, tenantId |-> 1,
                                                 role |-> "admin", type |-> "tenant"])]
    /\ \E k \in SessionKinds : reqs = [c \in {k} |-> IdleRequest]
    /\ nReq = 0

\* an awaited lookup (getPlatformUser, getTenant, getUser) rejects, or
\* createTenantStorage throws: the middleware's catch block answers
AuthenticationThrows(c) ==
    /\ reqs[c].pc \in {"getPlatformUser", "getTenant", "getUser"}
    /\ reqs' = [reqs EXCEPT ![c] = CaughtResponse(reqs[c])]
    /\ UNCHANGED <<tenants, platformUsers, users, tenantConnections, pools,
                   stripe, cookies, nReq, now>>

NextAuth ==
    \/ \E c \in DOMAIN reqs : \E in \in AuthRequests(c), creds \in AllCredentials :
            nReq < MaxAuthRequests /\ StartRequest(c, in, creds)
    \/ \E c \in DOMAIN reqs : AuthenticatePlatformUser(c)
    \/ \E c \in DOMAIN reqs : AuthenticateTenantUserGetTenant(c)
    \/ \E c \in DOMAIN reqs : AuthenticateTenantUserGetUser(c)
    \/ \E c \in DOMAIN reqs : AuthenticationThrows(c)
    \/ \E c \in DOMAIN reqs : Guard(c)
    \/ \E c \in DOMAIN reqs : CurrentUser(c)
    \/ \E c \in DOMAIN reqs : GetTenants(c)
    \/ \E c \in DOMAIN reqs : TenantList(c)
    \/ \E data \in UpdateTenantBodies : StorageUpdateTenant(data)
    \/ StorageDeleteTenant
    \/ \E data \in PlatformUserUpdates : StorageUpdatePlatformUser(data)
    \/ \E data \in UserUpdates : StorageUpdateUser(data)
    \/ StorageDeleteUser
    \/ Tick

SpecAuth == InitAuth /\ [][NextAuth]_vars

\* =========================================================================
\* Properties of token extraction and verification (checked under SpecAuth)
\* =========================================================================
\* the request sent an Authorization header that starts with 'Bearer '
SentBearer(q) == q.authorization # Null /\ q.authorization[1] = "Bearer "

\* the request went on to the first lookup of its middleware with these claims
WentOnWith(q, claims) ==
    /\ q.decoded = claims
    /\ q.pc \in {"getPlatformUser", "getTenant"}
    /\ q.status = 0

\* ---- C11 ----------------------------------------------------------------
\* C11: of an arriving request the token is what follows 'Bearer ' in the
\* Authorization header when the header starts so, and the domain's cookie
\* otherwise.  When that token is empty or absent the request is answered 401
\* 'Access token required' at once, nothing verified and no store or pool
\* touched.  A Bearer header decides alone: with a token that does not verify
\* the request is answered 401 'Invalid token' whatever the cookie holds.
C11_TokenExtraction ==
    [][nReq' # nReq =>
        \A c \in DOMAIN reqs :
            LET q == reqs'[c]
                header == q.authorization
                cookie == q.cookie
            IN /\ (SentBearer(q) /\ header[2] = EmptyString) =>
                      /\ RejectedWith(q, 401, "Access token required")
                      /\ q.decoded = Null
                      /\ UNCHANGED <<tenantConnections, pools>>
               /\ (~SentBearer(q) /\ cookie \in {Null, EmptyString}) =>
                      /\ RejectedWith(q, 401, "Access token required")
                      /\ q.decoded = Null
                      /\ UNCHANGED <<tenantConnections, pools>>
               /\ (SentBearer(q) /\ header[2] # EmptyString) =>
                      IF VerifyToken(header[2]) = Null
                      THEN RejectedWith(q, 401, "Invalid token")
                      ELSE WentOnWith(q, VerifyToken(header[2]))
               /\ (~SentBearer(q) /\ cookie \notin {Null, EmptyString}) =>
                      IF VerifyToken(cookie) = Null
                      THEN RejectedWith(q, 401, "Invalid token")
                      ELSE WentOnWith(q, VerifyToken(cookie))
      ]_vars

\* a request with a Bearer token of a foreign signature and a cookie that
\* verifies was answered 401 'Invalid token'
C11_Witness ==
    \E c \in DOMAIN reqs :
        LET q == reqs[c] IN
        /\ InFlight(q) /\ SentBearer(q)
        /\ q.authorization[2] = ForgedToken
        /\ VerifyToken(q.cookie) # Null
        /\ RejectedWith(q, 401, "Invalid token")

\* ---- C12 ----------------------------------------------------------------
\* the three ways a presented token is invalid
Malformed(token) == Len(token) # 3
BadSignature(token) ==
    Len(token) = 3 /\ (token[3][1] # JWT_SECRET \/ token[3][2] # token[2])
Expired(token) == Len(token) = 3 /\ token[2].exp <= now

\* C12: in both domains an arriving request whose token is malformed, carries
\* a signature that is not the server's over its claims, or is expired is
\* answered with the same 401 'Invalid token'; no principal is attached and
\* the handler is not called.
C12_InvalidTokenUniform ==
    [][nReq' # nReq =>
        \A c \in DOMAIN reqs :
            LET q == reqs'[c]
                token == IF SentBearer(q) THEN q.authorization[2] ELSE q.cookie
            IN (token \notin {Null, EmptyString}
                /\ (Malformed(token) \/ BadSignature(token) \/ Expired(token)))
               => /\ RejectedWith(q, 401, "Invalid token")
                  /\ q.decoded = Null
      ]_vars

\* the token login issued, presented after its seven days, was answered 401
\* 'Invalid token'
C12_Witness ==
    \E c \in DOMAIN reqs :
        LET q == reqs[c] IN
        /\ InFlight(q) /\ q.authorization = Null /\ q.cookie # Null
        /\ ~Malformed(q.cookie) /\ ~BadSignature(q.cookie) /\ Expired(q.cookie)
        /\ RejectedWith(q, 401, "Invalid token")

\* ---- C14 ----------------------------------------------------------------
AuthPcs == {"getPlatformUser", "getTenant", "getUser"}

\* C14: a step of an authentication middleware either goes on inside the
\* middleware, or calls next() with a principal attached and no response
\* sent, or answers 401 and attaches nothing; a guard step calls next() or
\* answers 403; a lookup or pool access that throws is answered 401, never
\* 500; and once a request is answered 401 or 403 its handler never runs.
C14_OneOutcome ==
    /\ [][\A c \in DOMAIN reqs :
            LET q == reqs'[c] IN
            /\ ((nReq' # nReq \/ reqs[c].pc \in AuthPcs) /\ q # reqs[c]) =>
                  \/ q.pc \in AuthPcs /\ q.status = 0 /\ q.user = Null
                  \/ q.pc \in {"guard", "handler"} /\ q.status = 0 /\ q.user # Null /\ ~q.ran
                  \/ q.pc = "done" /\ q.status = 401 /\ q.user = Null /\ ~q.ran
            /\ (reqs[c].pc = "guard" /\ q # reqs[c]) =>
                  \/ q.pc = "handler" /\ q.status = 0 /\ q.user = reqs[c].user
                  \/ q.pc = "done" /\ q.status = 403 /\ ~q.ran
            /\ (reqs[c].pc = "done" /\ reqs[c].status \in {401, 403} /\ nReq' = nReq) =>
                  q = reqs[c]
         ]_vars
    /\ [](\A c \in DOMAIN reqs :
            (InFlight(reqs[c]) /\ ~HandlerRuns(reqs[c])) => reqs[c].status \in {0, 401, 403})

\* getUser threw for a request whose tenant had loaded, and the request was
\* answered 401
C14_Witness ==
    \E c \in DOMAIN reqs :
        LET q == reqs[c] IN
        /\ TenantProtected(q)
        /\ RejectedWith(q, 401, "Invalid token")
        /\ q.decoded # Null
        /\ Len(pools) = 1

\* =========================================================================
\* The token codec on its own: generateToken is applied to a claim set at some
\* time and verifyToken to its result at the same or a later time.
\* =========================================================================
\* the payloads the two login handlers sign
ClaimSets ==
    {[userId |-> u, role |-> ro, type |-> "platform"] : u \in {1, 2}, ro \in PlatformRoles}
    \cup {[userId |-> u, tenantId |-> t, role |-> ro, type |-> "tenant"] :
            u \in {1, 2}, t \in {1, 2}, ro \in TenantRoles}

CodecRun(pc, claims, token, issuedAt, decoded, verifiedAt) ==
    [pc |-> pc, claims |-> claims, token |-> token, issuedAt |-> issuedAt,
     decoded |-> decoded, verifiedAt |-> verifiedAt]

InitCodec ==
    /\ now = 0
    /\ tenants = SeedTenants
    /\ platformUsers = SeedPlatformUsers
    /\ users = SeedUsers
    /\ tenantConnections = << >>
    /\ pools = << >>
    /\ stripe = Null
    /\ cookies = [platformToken |-> Null, tenantToken |-> Null]
    /\ \E claims \in ClaimSets :
          reqs = [c \in {"codec"} |-> CodecRun("claims", claims, Null, 0, Null, 0)]
    /\ nReq = 0

\* const token = generateToken(claims)
CodecGenerate(c) ==
    /\ reqs[c].pc = "claims"
    /\ reqs' = [reqs EXCEPT ![c] =
          [@ EXCEPT !.pc = "token", !.token = GenerateToken(reqs[c].claims),
                    !.issuedAt = now]]
    /\ UNCHANGED <<tenants, platformUsers, users, tenantConnections, pools,
                   stripe, cookies, nReq, now>>

\* const decoded = verifyToken(token)
CodecVerify(c) ==
    /\ reqs[c].pc = "token"
    /\ reqs' = [reqs EXCEPT ![c] =
          [@ EXCEPT !.pc = "verified", !.decoded = VerifyToken(reqs[c].token),
                    !.verifiedAt = now]]
    /\ UNCHANGED <<tenants, platformUsers, users, tenantConnections, pools,
                   stripe, cookies, nReq, now>>

NextCodec ==
    \/ \E c \in DOMAIN reqs : CodecGenerate(c)
    \/ \E c \in DOMAIN reqs : CodecVerify(c)
    \/ Tick

SpecCodec == InitCodec /\ [][NextCodec]_vars

PaidPlans == {"standard", "enterprise"}

\* the step in which request c answers 200
Succeeds(c) == reqs[c].pc # "done" /\ reqs'[c].pc = "done" /\ reqs'[c].status = 200

\* ---- C15 ----------------------------------------------------------------
\* C15: in the step in which an upgrade to standard or enterprise succeeds,
\* the tenant named in the request is stored with the requested plan, status
\* active, the reference of the subscription the provider created last (the
\* one this request's stripe.subscriptions.create returned), the customer that
\* subscription was created for, and an expiry 30 days after the current time.
C15_PaidUpgradeState ==
    [][\A c \in DOMAIN reqs :
          (reqs[c].route = UpgradeRoute /\ reqs[c].body.plan \in PaidPlans /\ Succeeds(c)) =>
              LET q == reqs'[c]
                  tenant == GetTenantBySubdomain(tenants', q.subdomain)
                  n == Len(stripe.subscriptions)
              IN /\ tenant.subscriptionPlan = q.body.plan
                 /\ tenant.subscriptionStatus = "active"
                 /\ n > 0 /\ tenant.stripeSubscriptionId = SubscriptionId(n)
                 /\ tenant.stripeCustomerId = stripe.subscriptions[n].customer
                 /\ tenant.stripeCustomerId # NoStr
                 /\ Len(q.calls) >= 2
                 /\ q.calls[Len(q.calls) - 1] =
                        [call |-> "stripe.subscriptions.create",
                         arg |-> tenant.stripeCustomerId, ok |-> TRUE]
                 /\ tenant.subscriptionEndsAt = now + ThirtyDays
      ]_vars

\* an upgrade to enterprise succeeded a day after the session began: the demo
\* tenant holds the provider's first subscription and expires on day 31
C15_Witness ==
    \E c \in DOMAIN reqs :
        LET q == reqs[c]
            tenant == GetTenantBySubdomain(tenants, "demo")
        IN /\ q.route = UpgradeRoute /\ q.subdomain = "demo" /\ q.body.plan = "enterprise"
           /\ q.pc = "done" /\ q.status = 200
           /\ now = 1
           /\ tenant.subscriptionPlan = "enterprise"
           /\ tenant.stripeSubscriptionId = SubscriptionId(1)
           /\ tenant.stripeCustomerId = CustomerId(1)
           /\ tenant.subscriptionEndsAt = 1 + ThirtyDays

\* the request's calls so far: its billing calls, then its write
CancelThenWrite(q, id) ==
    <<[call |-> "stripe.subscriptions.cancel", arg |-> id, ok |-> TRUE],
      [call |-> "updateTenantSubscription", arg |-> q.subdomain, ok |-> TRUE]>>

WriteOnly(q) == <<[call |-> "updateTenantSubscription", arg |-> q.subdomain, ok |-> TRUE]>>

\* ---- C16 ----------------------------------------------------------------
\* C16: in the step in which an upgrade to free succeeds, a tenant that held a
\* subscription reference has had exactly that reference cancelled at the
\* provider by this request, a tenant that held none has caused no provider
\* call, and the tenant is stored with plan free, status active, no
\* subscription reference, no expiry and the customer reference it had.
C16_FreeUpgradeState ==
    [][\A c \in DOMAIN reqs :
          (reqs[c].route = UpgradeRoute /\ reqs[c].body.plan = "free" /\ Succeeds(c)) =>
              LET q == reqs'[c]
                  before == GetTenantBySubdomain(tenants, q.subdomain)
                  after == GetTenantBySubdomain(tenants', q.subdomain)
              IN /\ IF before.stripeSubscriptionId # NoStr
                    THEN /\ q.calls = CancelThenWrite(q, before.stripeSubscriptionId)
                         /\ ~StripeCanCancel(stripe, before.stripeSubscriptionId)
                    ELSE /\ q.calls = WriteOnly(q)
                         /\ stripe' = stripe
                 /\ after.subscriptionPlan = "free"
                 /\ after.subscriptionStatus = "active"
                 /\ after.stripeSubscriptionId = NoStr
                 /\ after.subscriptionEndsAt = 0
                 /\ after.stripeCustomerId = before.stripeCustomerId
      ]_vars

\* an upgrade to free of a tenant with a subscription succeeded: the provider
\* holds the subscription as canceled and the tenant keeps its customer
C16_Witness ==
    \E c \in DOMAIN reqs :
        LET q == reqs[c]
            tenant == GetTenantBySubdomain(tenants, "demo")
        IN /\ q.route = UpgradeRoute /\ q.subdomain = "demo" /\ q.body.plan = "free"
           /\ q.pc = "done" /\ q.status = 200
           /\ q.calls = CancelThenWrite(q, SubscriptionId(1))
           /\ stripe.subscriptions[1].status = "canceled"
           /\ tenant.subscriptionPlan = "free" /\ tenant.subscriptionStatus = "active"
           /\ tenant.stripeSubscriptionId = NoStr /\ tenant.subscriptionEndsAt = 0
           /\ tenant.stripeCustomerId = CustomerId(1)

AfterCancel(tenant) ==
    /\ tenant.subscriptionPlan = CancelledSubscription.subscriptionPlan
    /\ tenant.subscriptionStatus = CancelledSubscription.subscriptionStatus
    /\ tenant.stripeSubscriptionId = CancelledSubscription.stripeSubscriptionId
    /\ tenant.subscriptionEndsAt = CancelledSubscription.subscriptionEndsAt

\* request c arrives on the connection whose previous request was a cancel of
\* the same tenant that succeeded
CancelAgain(c) ==
    /\ reqs[c].route = CancelRoute /\ reqs[c].pc = "done" /\ reqs[c].status = 200
    /\ nReq' = nReq + 1
    /\ reqs'[c].route = CancelRoute /\ reqs'[c].pc # "done"
    /\ reqs'[c].subdomain = reqs[c].subdomain

\* ---- C18 ----------------------------------------------------------------
\* C18: a cancel that follows a successful cancel of the same tenant finds the
\* tenant in the state a cancel leaves; and no step of a cancel request on a
\* tenant in that state calls the provider or changes a stored subscription
\* field.
C18_CancelIdempotent ==
    [][\A c \in DOMAIN reqs :
          /\ CancelAgain(c) => AfterCancel(GetTenantBySubdomain(tenants, reqs[c].subdomain))
          /\ (/\ reqs[c].route = CancelRoute /\ reqs[c].pc # "done"
              /\ AfterCancel(GetTenantBySubdomain(tenants, reqs[c].subdomain))) =>
                 /\ stripe' = stripe
                 /\ \A i \in 1..Len(reqs'[c].calls) : reqs'[c].calls[i].call \notin BillingCalls
                 /\ StoredSubscriptions(tenants') = StoredSubscriptions(tenants)
      ]_vars

\* the third request, a cancel, succeeded with no billing call on a tenant
\* whose subscription had been canceled at the provider before
C18_Witness ==
    \E c \in DOMAIN reqs :
        LET q == reqs[c]
            tenant == GetTenantBySubdomain(tenants, "demo")
        IN /\ nReq = 3
           /\ q.route = CancelRoute /\ q.subdomain = "demo"
           /\ q.pc = "done" /\ q.status = 200
           /\ q.calls = WriteOnly(q)
           /\ Len(stripe.subscriptions) = 1
           /\ stripe.subscriptions[1].status = "canceled"
           /\ AfterCancel(tenant)
           /\ tenant.stripeCustomerId = CustomerId(1)

\* the request has awaited this call
HasCalled(q, call) == \E i \in 1..Len(q.calls) : q.calls[i].call = call

\* the step in which request c awaits this call
Calls(c, call) ==
    /\ Len(reqs'[c].calls) = Len(reqs[c].calls) + 1
    /\ reqs'[c].calls[Len(reqs'[c].calls)].call = call

\* the customers the provider holds for this tenant
CustomersOf(st, tenantId) ==
    {i \in 1..Len(st.customers) : st.customers[i].tenantId = tenantId}

\* ---- C19 ----------------------------------------------------------------
\* C19: an upgrade calls stripe.customers.create only for a tenant with no
\* stored customer reference, and creates its subscription for the stored
\* customer when there is one and for the customer it has just created when
\* there is none; and at every moment the provider holds at most one customer
\* for each tenant.
C19_OneCustomerPerTenant ==
    /\ [][\A c \in DOMAIN reqs :
             reqs[c].route = UpgradeRoute =>
                 LET stored == GetTenantBySubdomain(tenants, reqs[c].subdomain).stripeCustomerId
                 IN /\ Calls(c, "stripe.customers.create") => stored = NoStr
                    /\ Calls(c, "stripe.subscriptions.create") =>
                           IF stored = NoStr
                           THEN HasCalled(reqs[c], "stripe.customers.create")
                           ELSE /\ ~HasCalled(reqs[c], "stripe.customers.create")
                                /\ reqs'[c].calls[Len(reqs'[c].calls)].arg = stored
         ]_vars
    /\ [](\A i \in 1..Len(tenants) :
             tenants[i] # Null => Cardinality(CustomersOf(stripe, tenants[i].id)) <= 1)

\* the documented values of the columns subscription_plan and subscription_status
PlanDomain == {"free", "standard", "enterprise"}
StatusDomain == {"active", "trial", "cancelled"}

\* the rows whose stored subscription fields this step changes
Rewritten ==
    {i \in 1..Len(tenants) :
        StoredSubscriptions(tenants')[i] # StoredSubscriptions(tenants)[i]}

\* ---- C20 ----------------------------------------------------------------
\* C20: every step of an upgrade or cancel request that changes a tenant's
\* stored subscription fields leaves the tenant with a plan among free,
\* standard, enterprise and a status among active, trial, cancelled; and no
\* step of an upgrade that names any other plan changes a stored subscription
\* field or creates a subscription at the provider.
C20_PlanDomain ==
    [][/\ \A i \in Rewritten :
             /\ tenants'[i].subscriptionPlan \in PlanDomain
             /\ tenants'[i].subscriptionStatus \in StatusDomain
       /\ \A c \in DOMAIN reqs :
             (/\ reqs[c].route = UpgradeRoute /\ reqs[c].pc # "done"
              /\ reqs[c].body.plan \notin PlanDomain) =>
                 /\ StoredSubscriptions(tenants') = StoredSubscriptions(tenants)
                 /\ stripe'.subscriptions = stripe.subscriptions
      ]_vars

\* =========================================================================
\* Logout: a client that was logged in at time 0 kept a copy of each token
\* (the cookie is readable by whoever holds the browser).  It sends requests
\* with its cookie jar, logs out, and presents the kept copy as a Bearer
\* token, while the clock advances and rows change.
\* =========================================================================
LogoutRequests(c) ==
    IF c = "operator"
    THEN {Req("POST /api/platform/auth/logout", NoStr, 0, Null),
          Req("GET /api/platform/auth/me", NoStr, 0, Null),
          Req("GET /api/platform/tenants", NoStr, 0, Null)}
    ELSE {Req("POST /api/tenant/:subdomain/auth/logout", "demo", 0, Null),
          Req("GET /api/tenant/:subdomain/auth/me", "demo", 0, Null),
          Req("GET /api/tenant/:subdomain/users", "demo", 0, Null)}

InitLogout ==
    /\ now = 0
    /\ tenants = SeedTenants
    /\ platformUsers = SeedPlatformUsers
    /\ users = SeedUsers
    /\ tenantConnections = << >>
    /\ pools = << >>
    /\ stripe = Null
    /\ LET platformToken == GenerateToken([userId |-> 1, role |-> "super_admin",
                                           type |-> "platform"])
           tenantToken == GenerateToken([userId |-> 1, tenantId |-> 1,
                                         role |-> "admin", type |-> "tenant"])
       IN cookies = [platformToken |-> platformToken, tenantToken |-> tenantToken,
                     keptPlatformToken |-> platformToken, keptTenantToken |-> tenantToken]
    /\ \E k \in SessionKinds : reqs = [c \in {k} |-> IdleRequest]
    /\ nReq = 0

\* the copy of the token the client kept for the route's identity domain
KeptToken(route) ==
    IF RouteAuth(route) = "platform" THEN cookies.keptPlatformToken
    ELSE cookies.keptTenantToken

\* the cookie the browser holds for the route's identity domain
Jar(route) ==
    IF RouteAuth(route) = "platform" THEN cookies.platformToken ELSE cookies.tenantToken

\* a request to a protected route arrives with the kept copy as its Bearer
\* token and whatever cookie the browser still holds
PresentAgain(c, in) ==
    /\ reqs[c].pc \in {"idle", "done"}
    /\ nReq < MaxRequests
    /\ RouteAuth(in.route) # "none"
    /\ nReq' = nReq + 1
    /\ LET q == NewRequest(in.route, in.subdomain, in.id, in.body,
                           BearerHeader(KeptToken(in.route)), Jar(in.route))
       IN reqs' = [reqs EXCEPT ![c] =
              IF RouteAuth(in.route) = "platform"
              THEN AuthenticateStart(q, "getPlatformUser")
              ELSE AuthenticateStart(q, "getTenant")]
    /\ UNCHANGED <<tenants, platformUsers, users, tenantConnections, pools,
                   stripe, cookies, now>>

NextLogout ==
    \/ \E c \in DOMAIN reqs : \E in \in LogoutRequests(c) : StartRequest(c, in, "cookie")
    \/ \E c \in DOMAIN reqs : \E in \in LogoutRequests(c) : PresentAgain(c, in)
    \/ \E c \in DOMAIN reqs : Logout(c)
    \/ \E c \in DOMAIN reqs : AuthenticatePlatformUser(c)
    \/ \E c \in DOMAIN reqs : AuthenticateTenantUserGetTenant(c)
    \/ \E c \in DOMAIN reqs : AuthenticateTenantUserGetUser(c)
    \/ \E c \in DOMAIN reqs : Guard(c)
    \/ \E c \in DOMAIN reqs : CurrentUser(c)
    \/ \E c \in DOMAIN reqs : GetTenants(c)
    \/ \E c \in DOMAIN reqs : TenantList(c)
    \/ \E data \in UpdateTenantBodies : StorageUpdateTenant(data)
    \/ \E data \in PlatformUserUpdates : StorageUpdatePlatformUser(data)
    \/ \E data \in UserUpdates : StorageUpdateUser(data)
    \/ Tick

SpecLogout == InitLogout /\ [][NextLogout]_vars

LogoutRoutes == {"POST /api/platform/auth/logout", "POST /api/tenant/:subdomain/auth/logout"}

\* the request presents the kept copy of a token whose cookie logout has cleared
AfterLogout(q) ==
    /\ RouteAuth(q.route) \in {"platform", "tenant"}
    /\ Jar(q.route) = Null
    /\ SentBearer(q) /\ q.authorization[2] = KeptToken(q.route)

\* ---- C21 ----------------------------------------------------------------
\* C21: a logout changes no table and no pool; and a request that presents,
\* after the logout, the token the logout was meant to end is treated as any
\* bearer of that token: accepted by verifyToken while the token has not
\* expired, attached to its principal while the principal (and, for a tenant
\* token, the tenant) is stored as active, and let through the route's guard
\* exactly when the principal's role is among the route's roles.
C21_LogoutDoesNotRevoke ==
    [][\A c \in DOMAIN reqs :
          LET q == reqs[c]
              r == reqs'[c]
          IN /\ (q.pc = "handler" /\ q.route \in LogoutRoutes /\ r.pc = "done") =>
                    /\ r.status = 200
                    /\ tenants' = tenants /\ platformUsers' = platformUsers /\ users' = users
                    /\ tenantConnections' = tenantConnections /\ pools' = pools
             /\ (nReq' = nReq + 1 /\ AfterLogout(r) /\ now < KeptToken(r.route)[2].exp) =>
                    WentOnWith(r, KeptToken(r.route)[2])
             /\ (q.pc = "getPlatformUser" /\ r.pc # q.pc /\ AfterLogout(q)
                 /\ ~PrincipalRejected(SelectById(platformUsers, q.decoded.userId))) =>
                    /\ r.user = SelectById(platformUsers, q.decoded.userId)
                    /\ r.pc \in {"guard", "handler"} /\ r.status = 0
             /\ (q.pc = "getTenant" /\ r.pc # q.pc /\ AfterLogout(q)
                 /\ ~TenantRejected(SelectById(tenants, q.decoded.tenantId))) =>
                    r.pc = "getUser" /\ r.status = 0
             /\ (q.pc = "getUser" /\ r.pc # q.pc /\ AfterLogout(q)
                 /\ ~TenantPrincipalRejected(SelectById(users, q.decoded.userId), q.locTenant)) =>
                    /\ r.user = SelectById(users, q.decoded.userId)
                    /\ r.tenant.id = q.decoded.tenantId
                    /\ r.pc \in {"guard", "handler"} /\ r.status = 0
             /\ (q.pc = "guard" /\ r.pc # q.pc /\ AfterLogout(q)) =>
                    IF q.user.role \in RouteRoles(q.route)
                    THEN r.pc = "handler" /\ r.status = 0
                    ELSE r.pc = "done" /\ r.status = 403
      ]_vars

\* after the platform logout, the operator's kept token, presented as a
\* Bearer token, has listed the tenants
C21_Witness ==
    \E c \in DOMAIN reqs :
        /\ reqs[c].route = "GET /api/platform/tenants"
        /\ AfterLogout(reqs[c])
        /\ reqs[c].pc = "done" /\ reqs[c].status = 200 /\ reqs[c].ran
        /\ reqs[c].user.role = "super_admin"

\* =========================================================================
\* Properties of the connection registry (checked under SpecPool)
\* =========================================================================
\* the step in which request r calls getTenantDb
CallsGetTenantDb(r) == reqs[r].pc = "awaiting" /\ reqs'[r].pc = "querying"

\* ---- C22 ----------------------------------------------------------------
\* C22: at most one pool is ever built for a connection string; an entry of
\* the registry is never removed and never mapped to another handle; and a
\* call of getTenantDb for a string that has an entry returns that entry's
\* handle and builds no pool.
C22_RegistryStable ==
    [][/\ \A cs \in ConnStrings :
             Cardinality({i \in 1..Len(pools') : pools'[i] = cs}) <= 1
       /\ \A cs \in DOMAIN tenantConnections :
             /\ cs \in DOMAIN tenantConnections'
             /\ tenantConnections'[cs] = tenantConnections[cs]
       /\ \A r \in PoolCallers :
             (CallsGetTenantDb(r) /\ reqs[r].cs \in DOMAIN tenantConnections) =>
                 /\ reqs'[r].db = tenantConnections[reqs[r].cs]
                 /\ ~reqs'[r].built
                 /\ pools' = pools
      ]_vars

\* both strings have an entry; two requests share the handle of one string
\* and a third holds the handle of the other
C22_Witness ==
    /\ DOMAIN tenantConnections = ConnStrings
    /\ Len(pools) = 2
    /\ \E r1, r2, r3 \in PoolCallers :
          /\ r1 # r2
          /\ reqs[r1].cs = reqs[r2].cs /\ reqs[r3].cs # reqs[r1].cs
          /\ reqs[r1].built /\ ~reqs[r2].built /\ reqs[r3].built
          /\ reqs[r1].db = reqs[r2].db /\ reqs[r3].db # reqs[r1].db
          /\ reqs[r3].db # 0 /\ reqs[r1].db # 0

\* request r0 made the first call of getTenantDb for its string (it built the
\* pool) and its query was rejected because the store could not be reached
FailedFirstCall(r0) == reqs[r0].pc = "failed" /\ reqs[r0].built

\* ---- C23 ----------------------------------------------------------------
\* C23 (as claimed): when the query of the first caller for a string was
\* rejected because the store is unreachable, the registry holds no entry for
\* the string, and the next call of getTenantDb for it builds a pool again.
C23_FailedCreationNotStored ==
    /\ [](\A r0 \in PoolCallers :
             FailedFirstCall(r0) => reqs[r0].cs \notin DOMAIN tenantConnections)
    /\ [][\A r0, r \in PoolCallers :
             (FailedFirstCall(r0) /\ CallsGetTenantDb(r) /\ reqs[r].cs = reqs[r0].cs) =>
                 reqs'[r].built
         ]_vars

\* C23 (amended): every call of getTenantDb returns a handle and leaves an
\* entry for its string, the store reachable or not; the step in which a
\* query is rejected ends that caller's request only and leaves the registry
\* and the pools as they were; and a call for a string whose first caller
\* failed returns the stored handle and builds no pool, its query going to the
\* store again through that pool.
C23_FailedQueryKeepsEntry ==
    [][\A r \in PoolCallers :
          /\ CallsGetTenantDb(r) =>
                /\ reqs[r].cs \in DOMAIN tenantConnections'
                /\ reqs'[r].db = tenantConnections'[reqs[r].cs]
                /\ pools'[reqs'[r].db] = reqs[r].cs
          /\ (reqs[r].pc = "querying" /\ reqs'[r].pc = "failed") =>
                /\ tenantConnections' = tenantConnections /\ pools' = pools
                /\ reqs[r].cs \in DOMAIN tenantConnections
                /\ \A o \in PoolCallers \ {r} : reqs'[o] = reqs[o]
          /\ \A r0 \in PoolCallers :
                (FailedFirstCall(r0) /\ CallsGetTenantDb(r) /\ reqs[r].cs = reqs[r0].cs) =>
                    /\ ~reqs'[r].built /\ pools' = pools
                    /\ reqs'[r].db = reqs[r0].db
      ]_vars

\* the first caller for a string failed; a later caller for the same string
\* was given the same handle, built nothing, and its query succeeded
C23_Witness ==
    \E r0, r \in PoolCallers :
        /\ FailedFirstCall(r0)
        /\ reqs[r].cs = reqs[r0].cs /\ reqs[r].pc = "done"
        /\ ~reqs[r].built /\ reqs[r].db = reqs[r0].db
        /\ Cardinality(PoolsBuiltFor(reqs[r].cs)) = 1

\* =========================================================================
\* Identity domains: one client logs in to either domain and presents the
\* token one login gave it to the routes of its own domain, as the cookie,
\* and to the routes of the other domain, as a Bearer token.
\* =========================================================================
CrossRequests ==
    {Req("POST /api/platform/auth/login", NoStr, 0, b) : b \in PlatformLoginBodies}
    \cup {Req("POST /api/tenant/:subdomain/auth/login", sd, 0, b) :
            sd \in {"demo", "acme"}, b \in TenantLoginBodies}

ProtectedRequests ==
    {Req("GET /api/platform/auth/me", NoStr, 0, Null),
     Req("GET /api/platform/tenants", NoStr, 0, Null),
     Req("GET /api/tenant/:subdomain/auth/me", "demo", 0, Null),
     Req("GET /api/tenant/:subdomain/users", "demo", 0, Null)}

InitCross ==
    /\ now = 0
    /\ tenants = SeedTenants
    /\ platformUsers = SeedPlatformUsers
    /\ users = SeedUsers
    /\ tenantConnections = << >>
    /\ pools = << >>
    /\ stripe = Null
    /\ cookies = [platformToken |-> Null, tenantToken |-> Null]
    /\ reqs = [c \in {"client"} |-> IdleRequest]
    /\ nReq = 0

\* the token the client holds for the other identity domain
OtherJar(route) ==
    IF RouteAuth(route) = "platform" THEN cookies.tenantToken ELSE cookies.platformToken

\* a request to a protected route arrives with the other domain's token as
\* its Bearer token
PresentAcross(c, in) ==
    /\ reqs[c].pc \in {"idle", "done"}
    /\ nReq < MaxRequests
    /\ OtherJar(in.route) # Null
    /\ nReq' = nReq + 1
    /\ LET q == NewRequest(in.route, in.subdomain, in.id, in.body,
                           BearerHeader(OtherJar(in.route)), Null)
       IN reqs' = [reqs EXCEPT ![c] =
              IF RouteAuth(in.route) = "platform"
              THEN AuthenticateStart(q, "getPlatformUser")
              ELSE AuthenticateStart(q, "getTenant")]
    /\ UNCHANGED <<tenants, platformUsers, users, tenantConnections, pools,
                   stripe, cookies, now>>

NextCross ==
    \/ \E c \in DOMAIN reqs : \E in \in CrossRequests \cup ProtectedRequests :
            StartRequest(c, in, "cookie")
    \/ \E c \in DOMAIN reqs : \E in \in ProtectedRequests : PresentAcross(c, in)
    \/ \E c \in DOMAIN reqs : PlatformLogin(c)
    \/ \E c \in DOMAIN reqs : TenantLoginGetTenant(c)
    \/ \E c \in DOMAIN reqs : TenantLoginGetUser(c)
    \/ \E c \in DOMAIN reqs : AuthenticatePlatformUser(c)
    \/ \E c \in DOMAIN reqs : AuthenticateTenantUserGetTenant(c)
    \/ \E c \in DOMAIN reqs : AuthenticateTenantUserGetUser(c)
    \/ \E c \in DOMAIN reqs : Guard(c)
    \/ \E c \in DOMAIN reqs : CurrentUser(c)
    \/ \E c \in DOMAIN reqs : GetTenants(c)
    \/ \E c \in DOMAIN reqs : TenantList(c)

SpecCross == InitCross /\ [][NextCross]_vars

\* ---- C24 ----------------------------------------------------------------
\* C24: a request to a platform route whose token carries type 'tenant' is
\* never attached to a platform user, and a request to a tenant route whose
\* token carries type 'platform' is never attached to a tenant user.
C24_DomainSeparation ==
    \A c \in DOMAIN reqs :
        LET q == reqs[c] IN
        (q.decoded # Null /\ RouteAuth(q.route) \in {"platform", "tenant"}
         /\ q.decoded.type # RouteAuth(q.route)) =>
            q.user = Null /\ ~q.ran

\* ---- C25 ----------------------------------------------------------------
\* C25 (checked under SpecSeq): the subscription a read returns is that of
\* the tenant authentication attached to the request; a write of an upgrade
\* or a cancel changes the row of that tenant only; the customer an upgrade
\* creates is created for that tenant; and the subscription a request cancels
\* at the provider is the one stored for that tenant.
C25_OwnTenantOnly ==
    [][\A c \in DOMAIN reqs :
          LET q == reqs[c]
              r == reqs'[c]
          IN /\ (q.route = SubscriptionRoute /\ q.pc = "handler" /\ r.status = 200) =>
                    r.message = SelectById(tenants, q.tenant.id).subscriptionPlan
             /\ (q.route \in {UpgradeRoute, CancelRoute} /\ Wrote(r) /\ ~Wrote(q)) =>
                    Rewritten \subseteq {q.tenant.id}
             /\ (q.route = UpgradeRoute /\ Calls(c, "stripe.customers.create")
                 /\ r.calls[Len(r.calls)].ok) =>
                    stripe'.customers[Len(stripe'.customers)].tenantId = q.tenant.id
             /\ (q.route \in {UpgradeRoute, CancelRoute}
                 /\ Calls(c, "stripe.subscriptions.cancel")) =>
                    r.calls[Len(r.calls)].arg =
                        SelectById(tenants, q.tenant.id).stripeSubscriptionId
      ]_vars

\* the subscriptions the provider holds, not canceled, for customers created
\* with this tenant's id
LiveFor(st, tenantId) ==
    {SubscriptionId(i) : i \in
        {j \in 1..Len(st.subscriptions) :
            /\ st.subscriptions[j].status # "canceled"
            /\ \E n \in CustomersOf(st, tenantId) :
                  CustomerId(n) = st.subscriptions[j].customer}}

\* the stored reference of the tenant, as a set
StoredRefs(tenant) ==
    IF tenant.stripeSubscriptionId = NoStr THEN {} ELSE {tenant.stripeSubscriptionId}

\* no request is being served
Quiescent == \A c \in DOMAIN reqs : reqs[c].pc \in {"idle", "done"}

\* ---- C26 ----------------------------------------------------------------
\* C26 (checked under SpecSeq, requests one at a time): whenever no request
\* is being served, the subscriptions live at the provider for a tenant on
\* a documented plan are exactly the one the tenant's row refers to, or none
\* when it refers to none; and the step in which a paid upgrade of a tenant that already held a
\* subscription succeeds leaves that earlier subscription canceled at the
\* provider.  (A rejected provider call changes no subscription on either
\* side, so the states reached with rejections are those reached without.)
C26_NoOrphanSequential ==
    /\ [](Quiescent =>
            \A i \in 1..Len(tenants) :
                (tenants[i] # Null /\ tenants[i].subscriptionPlan \in PlanDomain) =>
                    LiveFor(stripe, tenants[i].id) = StoredRefs(tenants[i]))
    /\ [][\A c \in DOMAIN reqs :
             (/\ reqs[c].route = UpgradeRoute /\ reqs[c].body.plan \in PaidPlans
              /\ Succeeds(c)
              /\ GetTenantBySubdomain(tenants, reqs[c].subdomain).stripeSubscriptionId # NoStr) =>
                 ~StripeCanCancel(stripe',
                     GetTenantBySubdomain(tenants, reqs[c].subdomain).stripeSubscriptionId)
         ]_vars

\* ---- C27 ----------------------------------------------------------------
\* C27 (checked under SpecSub, two requests in flight together): once two
\* upgrade (to a documented plan) or cancel requests for one tenant, the
\* only requests sent, have both answered 200, the subscriptions live at the provider for that tenant
\* are among the one its row refers to, and none is live when the row is on
\* plan free with no reference.
C27_NoOrphanConcurrent ==
    (/\ nReq = 2
     /\ \A c \in DOMAIN reqs :
           /\ reqs[c].route \in {UpgradeRoute, CancelRoute}
           /\ reqs[c].route = UpgradeRoute => reqs[c].body.plan \in PlanDomain
           /\ reqs[c].pc = "done" /\ reqs[c].status = 200
           /\ reqs[c].subdomain = "demo") =>
        LET tenant == GetTenantBySubdomain(tenants, "demo") IN
        /\ LiveFor(stripe, tenant.id) \subseteq StoredRefs(tenant)
        /\ (tenant.subscriptionPlan = "free" /\ tenant.stripeSubscriptionId = NoStr) =>
               LiveFor(stripe, tenant.id) = {}

\* =========================================================================
\* routes.ts: tenant user management.  The manager of tenant acme, logged
\* in, sends user-management requests one after the other.  Both seeded
\* tenants resolve to the store at DATABASE_URL, so table users holds the
\* principals of both.
\* =========================================================================
CreateUserRoute == "POST /api/tenant/:subdomain/users"
UpdateUserRoute == "PUT /api/tenant/:subdomain/users/:id"
DeleteUserRoute == "DELETE /api/tenant/:subdomain/users/:id"

CreateUserBodies ==
    {[email |-> e, password |-> "secret", role |-> ro] :
        e \in {"new@acme.com", "user@demo.com"}, ro \in {"admin", "user", NoStr}}

UpdateUserBodies == {[role |-> "admin"], [tenantId |-> 1], [isActive |-> FALSE]}

UserRequests ==
    {Req(CreateUserRoute, "acme", 0, b) : b \in CreateUserBodies}
    \cup {Req(UpdateUserRoute, "acme", id, b) : id \in 1..3, b \in UpdateUserBodies}
    \cup {Req(DeleteUserRoute, "acme", id, Null) : id \in 1..2}

InitUsers ==
    /\ now = 0
    /\ tenants = SeedTenants
    /\ platformUsers = SeedPlatformUsers
    /\ users = SeedUsers
    /\ tenantConnections = << >>
    /\ pools = << >>
    /\ stripe = Null
    /\ cookies = [platformToken |-> Null,
                  tenantToken |-> GenerateToken([userId |-> 2, tenantId |-> 2,
                                                 role |-> "manager", type |-> "tenant"])]
    /\ reqs = [c \in {"manager"} |-> IdleRequest]
    /\ nReq = 0

\* POST /api/tenant/:subdomain/users up to the insert: createTenantStorage,
\* getUserByEmail
CreateUserCheck(c) ==
    /\ reqs[c].pc = "handler" /\ reqs[c].route = CreateUserRoute
    /\ LET q == [reqs[c] EXCEPT !.ran = TRUE]
           cs == q.tenant.connectionString
       IN /\ tenantConnections' = GetTenantDbConns(tenantConnections, pools, cs)
          /\ pools' = GetTenantDbPools(tenantConnections, pools, cs)
          /\ reqs' = [reqs EXCEPT ![c] =
                IF SelectByEmail(users, q.body.email) # Null
                THEN Respond(q, 400, "User already exists")
                ELSE [q EXCEPT !.pc = "createUser"]]
    /\ UNCHANGED <<tenants, platformUsers, users, stripe, cookies, nReq, now>>

\* POST /api/tenant/:subdomain/users: hashPassword, createUser with
\* role: role || 'user' and tenantId: req.tenant.id
CreateUserInsert(c) ==
    /\ reqs[c].pc = "createUser"
    /\ LET q == reqs[c]
           row == UserRow(Len(users) + 1, q.body.email, HashPassword(q.body.password),
                          IF q.body.role = NoStr THEN "user" ELSE q.body.role,
                          TRUE, q.tenant.id)
       IN /\ users' = Append(users, row)
          /\ reqs' = [reqs EXCEPT ![c] = [q EXCEPT !.pc = "done", !.status = 201]]
    /\ UNCHANGED <<tenants, platformUsers, tenantConnections, pools, stripe, cookies, nReq, now>>

\* PUT /api/tenant/:subdomain/users/:id: updateUser(userId, req.body); reading
\* user.id of no row throws into the catch block
UpdateUser(c) ==
    /\ reqs[c].pc = "handler" /\ reqs[c].route = UpdateUserRoute
    /\ LET q == [reqs[c] EXCEPT !.ran = TRUE]
           cs == q.tenant.connectionString
       IN /\ tenantConnections' = GetTenantDbConns(tenantConnections, pools, cs)
          /\ pools' = GetTenantDbPools(tenantConnections, pools, cs)
          /\ users' = UpdateById(users, q.id, q.body)
          /\ reqs' = [reqs EXCEPT ![c] =
                IF SelectById(users, q.id) = Null
                THEN Respond(q, 500, "Internal server error")
                ELSE [q EXCEPT !.pc = "done", !.status = 200]]
    /\ UNCHANGED <<tenants, platformUsers, stripe, cookies, nReq, now>>

\* DELETE /api/tenant/:subdomain/users/:id: deleteUser(userId)
DeleteUser(c) ==
    /\ reqs[c].pc = "handler" /\ reqs[c].route = DeleteUserRoute
    /\ LET q == [reqs[c] EXCEPT !.ran = TRUE]
           cs == q.tenant.connectionString
       IN /\ tenantConnections' = GetTenantDbConns(tenantConnections, pools, cs)
          /\ pools' = GetTenantDbPools(tenantConnections, pools, cs)
          /\ users' = DeleteById(users, q.id)
          /\ reqs' = [reqs EXCEPT ![c] = Respond(q, 200, "User deleted successfully")]
    /\ UNCHANGED <<tenants, platformUsers, stripe, cookies, nReq, now>>

NextUsers ==
    \/ \E c \in DOMAIN reqs : \E in \in UserRequests : StartRequest(c, in, "cookie")
    \/ \E c \in DOMAIN reqs : AuthenticateTenantUserGetTenant(c)
    \/ \E c \in DOMAIN reqs : AuthenticateTenantUserGetUser(c)
    \/ \E c \in DOMAIN reqs : Guard(c)
    \/ \E c \in DOMAIN reqs : CreateUserCheck(c)
    \/ \E c \in DOMAIN reqs : CreateUserInsert(c)
    \/ \E c \in DOMAIN reqs : UpdateUser(c)
    \/ \E c \in DOMAIN reqs : DeleteUser(c)

SpecUsers == InitUsers /\ [][NextUsers]_vars

\* ---- C28 ----------------------------------------------------------------
\* C28: no step of a request whose principal holds role manager or user makes
\* a row of table users an admin's that was not one before, and none changes
\* the tenantId of a row.
C28_NoEscalation ==
    [][\A c \in DOMAIN reqs :
          (/\ reqs[c].user # Null /\ reqs[c].user.role \in {"manager", "user"}
           /\ SelectById(users, reqs[c].user.id) # Null
           /\ SelectById(users, reqs[c].user.id).role \in {"manager", "user"}
           /\ users' # users) =>
              \A i \in 1..Len(users') :
                  users'[i] # Null =>
                      /\ users'[i].role = "admin" =>
                            (i <= Len(users) /\ users[i] # Null /\ users[i].role = "admin")
                      /\ (i <= Len(users) /\ users[i] # Null) =>
                            users'[i].tenantId = users[i].tenantId
      ]_vars

\* ---- C29 ----------------------------------------------------------------
\* C29: while the two tenants resolve to the same store address, every row of
\* table users that a step of an authenticated tenant request updates or
\* deletes belongs to the tenant authentication attached to the request.
C29_HandlersStayInTenant ==
    [][\A c \in DOMAIN reqs :
          (/\ reqs[c].tenant # Null
           /\ ConnectionStringOf(tenants[1]) = ConnectionStringOf(tenants[2])
           /\ users' # users) =>
              \A i \in 1..Len(users) :
                  (users[i] # Null /\ users'[i] # users[i]) =>
                      users[i].tenantId = reqs[c].tenant.id
      ]_vars

\* ---- C30 ----------------------------------------------------------------
TenantLoginRoute == "POST /api/tenant/:subdomain/auth/login"

\* the row of table users the login of request q is about, as stored now
LoginRows(q) ==
    {i \in 1..Len(users) :
        /\ users[i] # Null
        /\ users[i].email = q.body.email
        /\ users[i].password = HashPassword(q.body.password)}

\* C30: the step of tenant login that issues a token finds the tenant the
\* subdomain resolved to active, and a stored user with the given email, that
\* tenant's id, the given password's hash and isActive; the token is the one
\* generateToken makes of that user's id and role, that tenant's id and type
\* 'tenant'.  The step that answers 'Account is disabled' finds the given
\* password matching the stored hash.
C30_TenantLoginConditions ==
    [][\A c \in DOMAIN reqs :
          (reqs[c].route = TenantLoginRoute /\ reqs'[c].route = TenantLoginRoute
           /\ reqs[c].pc # "done" /\ reqs'[c].pc = "done") =>
              /\ reqs'[c].resToken # Null =>
                    /\ reqs[c].locTenant # Null
                    /\ reqs[c].locTenant.subdomain = reqs[c].subdomain
                    /\ reqs[c].locTenant.status = "active"
                    /\ \E i \in LoginRows(reqs[c]) :
                          /\ users[i].tenantId = reqs[c].locTenant.id
                          /\ users[i].isActive
                          /\ reqs'[c].resToken =
                                GenerateToken([userId |-> users[i].id,
                                               tenantId |-> reqs[c].locTenant.id,
                                               role |-> users[i].role,
                                               type |-> "tenant"])
                          /\ cookies'.tenantToken = reqs'[c].resToken
              /\ reqs'[c].message = "Account is disabled" => LoginRows(reqs[c]) # {}
      ]_vars

\* a tenant login has answered with a token
C30_Witness ==
    /\ "employee" \in DOMAIN reqs
    /\ reqs["employee"].route = TenantLoginRoute
    /\ reqs["employee"].pc = "done"
    /\ reqs["employee"].status = 200
    /\ reqs["employee"].resToken # Null
    /\ reqs["employee"].resToken = cookies.tenantToken

\* a tenant login has answered 'Account is disabled'
TenantLoginDisabled ==
    /\ "employee" \in DOMAIN reqs
    /\ reqs["employee"].route = TenantLoginRoute
    /\ reqs["employee"].pc = "done"
    /\ reqs["employee"].message = "Account is disabled"

====
